---- MODULE Spec2Model ----
(***************************************************************************)
(* duck-tools: CSV files become named in-memory tables, a SQL editor runs  *)
(* queries against them and the results render in a paginated, sortable    *)
(* table.                                                                  *)
(*                                                                         *)
(* Layers of the model:                                                    *)
(*   - the tabular query engine (window.duckdb / window.csvTables).  Its   *)
(*     source is the inline script of index.html, which is not among the   *)
(*     source files; it is modelled from spec.md sections 3, 4.1 and 7     *)
(*     (definitions prefixed Engine_ and the parser helpers);              *)
(*   - DuckDBManager (src/js/results-table.js:852-1065), the facade every  *)
(*     caller goes through;                                                *)
(*   - ResultsTable and CSVTools.runQuery (src/js/results-table.js).       *)
(*                                                                         *)
(* Arrays are heap objects: the registry and the results view hold         *)
(* references, so that aliasing between a query result and a stored table  *)
(* is expressible.  Unreachable arrays are collected after every step and  *)
(* the surviving references are renumbered in the order registry, results  *)
(* view, suspended calls (a reference has no meaning beyond identity).     *)
(***************************************************************************)
EXTENDS Integers, Sequences, FiniteSets, TLC

(***************************************************************************)
(* Bounds                                                                  *)
(***************************************************************************)
MaxRows == 2
MaxPending == 1
MaxChars == 3
MaxRecords == 2
MaxResults == 3
MaxAliases == 3
MaxFiles == 1
MaxBatch == 2
MaxInFlight == 2
MaxTests == 2

(***************************************************************************)
(* Input domains                                                           *)
(***************************************************************************)
TableNames == {"t1", "t2"}
Columns == <<"v", "k">>
VValues == {"1", "01", "x"}
KValues == {"x"}
DataRows == {<<a, b>> : a \in VValues, b \in KValues}

BoundedSeq(S, n) == UNION {[1..m -> S] : m \in 0..n}

GoodFiles == {[readable |-> TRUE, columns |-> Columns, data |-> d] :
                 d \in BoundedSeq(DataRows, MaxRows)}
BadFile == [readable |-> FALSE, columns |-> <<>>, data |-> <<>>]
Files == GoodFiles \cup {BadFile}

\* files used where only the registry's bookkeeping is exercised
LifecycleFiles ==
    {f \in GoodFiles : \A i \in 1..Len(f.data) : f.data[i][1] \in {"1", "x"}}
    \cup {BadFile}

NoRef == 0

NoCall == [op |-> "none", arg |-> <<>>]

\* a container without a table: empty, or the "No results to display" notice
NoResults == [rows |-> <<>>, pagination |-> FALSE]

Idle == [active |-> FALSE, files |-> <<>>]

\* new TestRunner(); runs: the calls of runTests that are past their guard, lastOp: the
\* method called last
NewRunner ==
    [tests |-> <<>>, results |-> <<>>, isRunning |-> FALSE, currentTest |-> 0,
     totalTests |-> 0, runs |-> <<>>, lastOp |-> "new"]

VARIABLES
    duckdbReady,      \* window.duckdb && window.duckdbReady
    db,               \* DuckDBManager.db
    conn,             \* DuckDBManager.conn
    isInitialized,    \* DuckDBManager.isInitialized
    csvTables,        \* window.csvTables: insertion-ordered Map name -> row array
    heap,             \* the arrays: reference -> sequence of row objects
    lastCall,         \* the last method call a caller made, and the outcome it received
    appInitialized,   \* CSVTools.isInitialized
    currentQuery,     \* CSVTools.currentQuery
    queryRunning,     \* run button disabled / editor read-only
    pending,          \* CSVTools.runQuery calls suspended at the await
    lastNotice,       \* last notification shown by CSVTools or FileHandler
    currentResults,   \* ResultsTable.currentResults (a reference or NoRef)
    currentPage,      \* ResultsTable.currentPage
    pageSize,         \* ResultsTable.pageSize
    sortColumn,       \* ResultsTable.sortColumn
    sortDirection,    \* ResultsTable.sortDirection
    testData,         \* the call a test is about to make on an object, or none
    container,        \* what ResultsTable has rendered: the table rows, pagination or not
    availableTables,  \* SQLEditor.availableTables
    tableCounter,     \* FileHandler.tableCounter
    uploadedFiles,    \* FileHandler.uploadedFiles: the entries of the Map, in insertion order
    loading,          \* calls of handleFileAdded waiting for duckdb.loadCSV
    clearing,         \* clearAllFiles: the files it has still to remove, or idle
    handedOut,        \* the aliases generateTableName has returned since tableCounter was 1
    fileError,        \* FileHandler.showError: the message its last step showed, or none
    runner            \* the TestRunner of the test page: its fields and its suspended runs

mgrVars == <<duckdbReady, db, conn, isInitialized>>
engVars == <<csvTables, heap>>
toolVars == <<appInitialized, currentQuery, queryRunning, pending, lastNotice>>
tableVars == <<currentResults, currentPage, pageSize, sortColumn, sortDirection>>
resultVars == <<currentPage, pageSize, sortColumn, sortDirection>>
appVars == <<appInitialized, currentQuery, queryRunning, lastNotice>>
harnessVars == <<testData>>
domVars == <<container>>
edVars == <<availableTables>>
fileVars == <<tableCounter, uploadedFiles, loading, clearing, handedOut>>
uiVars == <<edVars, fileVars, fileError, runner>>
otherVars == <<harnessVars, uiVars>>
vars == <<mgrVars, engVars, lastCall, toolVars, tableVars, otherVars, domVars>>

\* new SQLEditor(), new FileHandler(duckdbManager)
UiInit ==
    /\ availableTables = <<>>
    /\ tableCounter = 1
    /\ uploadedFiles = <<>>
    /\ loading = <<>>
    /\ clearing = Idle
    /\ handedOut = <<>>
    /\ fileError = <<>>
    /\ runner = NewRunner

(***************************************************************************)
(* Generic helpers                                                         *)
(***************************************************************************)
Range(s) == {s[i] : i \in DOMAIN s}

Min(a, b) == IF a < b THEN a ELSE b

SeqTake(s, n) == SubSeq(s, 1, Min(n, Len(s)))

NoError == [kind |-> "none", message |-> <<>>]
Ok(v) == [status |-> "ok", value |-> v, error |-> NoError]
Throw(kind, message) ==
    [status |-> "error", value |-> <<>>,
     error |-> [kind |-> kind, message |-> message]]

(***************************************************************************)
(* Row objects: insertion-ordered key/value maps                           *)
(***************************************************************************)
MakeRow(columns, values) ==
    [i \in 1..Len(columns) |-> [col |-> columns[i], val |-> values[i]]]

RowKeys(row) == [i \in 1..Len(row) |-> row[i].col]

HasKey(row, c) == \E i \in 1..Len(row) : row[i].col = c

RowGet(row, c) == row[CHOOSE i \in 1..Len(row) : row[i].col = c].val

(***************************************************************************)
(* Heap                                                                    *)
(***************************************************************************)
Alloc(h) == Len(h) + 1

Store(h, r, rows) == [x \in DOMAIN h \cup {r} |-> IF x = r THEN rows ELSE h[x]]

FirstPos(s, r) == CHOOSE i \in 1..Len(s) : s[i] = r /\ \A j \in 1..(i - 1) : s[j] # r

\* position of r among the distinct references of s, in order of first occurrence
Rank(s, r) == Cardinality({FirstPos(s, x) : x \in Range(s)} \cap 1..FirstPos(s, r))

Renumber(s, r) == IF r = NoRef THEN NoRef ELSE Rank(s, r)

Collect(h, s) ==
    [n \in 1..Cardinality(Range(s)) |-> h[CHOOSE r \in Range(s) : Rank(s, r) = n]]

(***************************************************************************)
(* Registry (Map semantics)                                                *)
(***************************************************************************)
MapKeys(m) == [i \in 1..Len(m) |-> m[i].name]

MapHas(m, name) == \E i \in 1..Len(m) : m[i].name = name

MapGet(m, name) == m[CHOOSE i \in 1..Len(m) : m[i].name = name]

MapSet(m, entry) ==
    IF MapHas(m, entry.name)
    THEN [i \in 1..Len(m) |-> IF m[i].name = entry.name THEN entry ELSE m[i]]
    ELSE Append(m, entry)

MapDelete(m, name) == SelectSeq(m, LAMBDA e : e.name # name)

(***************************************************************************)
(* Query text.  A query string is represented by its sequence of tokens;   *)
(* the lexical classes of the tokens are given by the tables below.        *)
(***************************************************************************)
Keyword(tok) ==
    CASE tok \in {"SELECT", "select"} -> "SELECT"
      [] tok \in {"FROM", "from"} -> "FROM"
      [] tok \in {"WHERE", "where"} -> "WHERE"
      [] tok \in {"AND", "and"} -> "AND"
      [] tok \in {"LIMIT", "limit"} -> "LIMIT"
      [] OTHER -> ""

Identifiers == {"t1", "t2", "t10", "T1", "v", "k", "z"}

CompareOps == {"=", "!=", "<>", ">", "<", ">=", "<="}

\* quoted strings and bare numbers, with the value they denote
LiteralValue ==
    ("'1'" :> "1") @@ ("'01'" :> "01") @@ ("'x'" :> "x") @@ ("'X'" :> "X")
    @@ ("1" :> "1") @@ ("2" :> "2")

\* the strings that parse as numbers, with their numeric value
NumberOf == ("1" :> 1) @@ ("01" :> 1) @@ ("2" :> 2)

\* code-unit order of the strings that are compared as strings
StrRank == ("01" :> 1) @@ ("1" :> 2) @@ ("2" :> 3) @@ ("X" :> 4) @@ ("x" :> 5)

\* LIMIT operands that are non-negative integers
LimitValue == ("0" :> 0) @@ ("1" :> 1) @@ ("2" :> 2) @@ ("3" :> 3)

ParseFail ==
    [ok |-> FALSE, star |-> FALSE, cols |-> <<>>, table |-> "",
     preds |-> <<>>, hasLimit |-> FALSE, limitTok |-> ""]

ValidColList(c) ==
    \/ c = <<"*">>
    \/ /\ Len(c) % 2 = 1
       /\ \A i \in 1..Len(c) :
             IF i % 2 = 1 THEN c[i] \in Identifiers ELSE c[i] = ","

ColListOf(c) ==
    IF c = <<"*">> THEN <<>>
    ELSE [i \in 1..((Len(c) + 1) \div 2) |-> c[2 * i - 1]]

\* p is the token sequence after WHERE: <col> <op> <literal> (AND ...)*
ValidPredicates(p) ==
    /\ Len(p) % 4 = 3
    /\ \A i \in 1..Len(p) :
          CASE i % 4 = 1 -> p[i] \in Identifiers
            [] i % 4 = 2 -> p[i] \in CompareOps
            [] i % 4 = 3 -> p[i] \in DOMAIN LiteralValue
            [] OTHER -> Keyword(p[i]) = "AND"

PredicatesOf(p) ==
    [j \in 1..((Len(p) + 1) \div 4) |->
        [col |-> p[4 * j - 3], op |-> p[4 * j - 2],
         lit |-> LiteralValue[p[4 * j - 1]]]]

FirstIndex(t, kw, from) ==
    LET idx == {i \in from..Len(t) : Keyword(t[i]) = kw}
    IN  IF idx = {} THEN 0 ELSE CHOOSE i \in idx : \A j \in idx : i <= j

WhereOk(whereToks) ==
    \/ whereToks = <<>>
    \/ /\ Keyword(whereToks[1]) = "WHERE"
       /\ ValidPredicates(Tail(whereToks))

Parsed(colToks, table, whereToks, hasLimit, limitTok) ==
    [ok |-> TRUE,
     star |-> colToks = <<"*">>,
     cols |-> ColListOf(colToks),
     table |-> table,
     preds |-> IF whereToks = <<>> THEN <<>> ELSE PredicatesOf(Tail(whereToks)),
     hasLimit |-> hasLimit,
     limitTok |-> limitTok]

\* rest: the tokens after the table name; l: the position of LIMIT in rest, or 0
ParseClauses(colToks, table, rest, l) ==
    IF l = 0
    THEN IF WhereOk(rest) THEN Parsed(colToks, table, rest, FALSE, "") ELSE ParseFail
    ELSE IF l + 1 = Len(rest) /\ WhereOk(SubSeq(rest, 1, l - 1))
         THEN Parsed(colToks, table, SubSeq(rest, 1, l - 1), TRUE, rest[l + 1])
         ELSE ParseFail

ParseTail(colToks, table, rest) ==
    ParseClauses(colToks, table, rest, FirstIndex(rest, "LIMIT", 1))

\* f: the position of FROM in t, or 0
ParseFrom(t, f) ==
    IF f = 0 \/ f + 1 > Len(t) THEN ParseFail
    ELSE IF ~ValidColList(SubSeq(t, 2, f - 1)) \/ t[f + 1] \notin Identifiers
         THEN ParseFail
         ELSE ParseTail(SubSeq(t, 2, f - 1), t[f + 1], SubSeq(t, f + 2, Len(t)))

\* SELECT <col-list|*> FROM <table> [WHERE <predicate>] [LIMIT <n>]
ParseQuery(t) ==
    IF Len(t) < 4 \/ Keyword(t[1]) # "SELECT" THEN ParseFail
    ELSE ParseFrom(t, FirstIndex(t, "FROM", 2))

(***************************************************************************)
(* Predicate evaluation: numeric when both sides parse as numbers,         *)
(* case-sensitive string comparison otherwise                              *)
(***************************************************************************)
CompareNumbers(op, a, b) ==
    CASE op = "=" -> a = b
      [] op \in {"!=", "<>"} -> a # b
      [] op = ">" -> a > b
      [] op = "<" -> a < b
      [] op = ">=" -> a >= b
      [] OTHER -> a <= b

\* variant: values are always compared as strings
Compare_stringsOnly(op, value, lit) ==
    CASE op = "=" -> value = lit
      [] op \in {"!=", "<>"} -> value # lit
      [] OTHER -> CompareNumbers(op, StrRank[value], StrRank[lit])

Compare(op, value, lit) ==
    IF value \in DOMAIN NumberOf /\ lit \in DOMAIN NumberOf
    THEN CompareNumbers(op, NumberOf[value], NumberOf[lit])
    ELSE CASE op = "=" -> value = lit
           [] op \in {"!=", "<>"} -> value # lit
           [] OTHER -> CompareNumbers(op, StrRank[value], StrRank[lit])

RowMatches(row, preds) ==
    \A j \in 1..Len(preds) : Compare(preds[j].op, RowGet(row, preds[j].col), preds[j].lit)

RECURSIVE FilterRows(_, _)
FilterRows(rows, preds) ==
    IF rows = <<>> THEN <<>>
    ELSE IF RowMatches(Head(rows), preds)
         THEN <<Head(rows)>> \o FilterRows(Tail(rows), preds)
         ELSE FilterRows(Tail(rows), preds)

ApplyLimit(rows, hasLimit, n) == IF hasLimit THEN SeqTake(rows, n) ELSE rows

\* variant: SELECT * keeps the first column only
ProjectRow_starKeepsFirstColumn(row, star, cols) ==
    IF star THEN SubSeq(row, 1, 1)
    ELSE [i \in 1..Len(cols) |-> [col |-> cols[i], val |-> RowGet(row, cols[i])]]

ProjectRow(row, star, cols) ==
    IF star THEN row
    ELSE [i \in 1..Len(cols) |-> [col |-> cols[i], val |-> RowGet(row, cols[i])]]

(***************************************************************************)
(* The engine.  Every operation returns its outcome together with the      *)
(* registry and the heap it leaves behind.                                 *)
(***************************************************************************)
EngineResult(out, tables, h) == [out |-> out, tables |-> tables, heap |-> h]

UnknownTable(name) == Throw("UnknownTable", <<"Unknown table: ", name>>)

Engine_createTable(name, columns, rows, tables, h) ==
    LET r == Alloc(h)
    IN  EngineResult(Ok(name),
                     MapSet(tables, [name |-> name, columns |-> columns, ref |-> r]),
                     Store(h, r, rows))

Engine_loadCSV(file, name, tables, h) ==
    IF ~file.readable
    THEN EngineResult(Throw("LoadError", <<"Could not read file">>), tables, h)
    ELSE Engine_createTable(name, file.columns,
             [i \in 1..Len(file.data) |-> MakeRow(file.columns, file.data[i])],
             tables, h)

Engine_dropTable(name, tables, h) ==
    EngineResult(Ok(<<>>), MapDelete(tables, name), h)

Engine_listTables(tables, h) == EngineResult(Ok(MapKeys(tables)), tables, h)

Engine_getRowCount(name, tables, h) ==
    IF MapHas(tables, name)
    THEN EngineResult(Ok(Len(h[MapGet(tables, name).ref])), tables, h)
    ELSE EngineResult(UnknownTable(name), tables, h)

ReferencedColumns(p) == p.cols \o [j \in 1..Len(p.preds) |-> p.preds[j].col]

FirstOf(idx) == CHOOSE i \in idx : \A j \in idx : i <= j

BadColumns(refd, columns) == {i \in 1..Len(refd) : refd[i] \notin Range(columns)}

\* variant: the limit is taken before the rows are filtered
SelectRows_limitsFirst(rows, p) ==
    LET filtered == FilterRows(ApplyLimit(rows, p.hasLimit,
                                   IF p.hasLimit THEN LimitValue[p.limitTok] ELSE 0),
                               p.preds)
    IN  [i \in 1..Len(filtered) |-> ProjectRow(filtered[i], p.star, p.cols)]

\* filter, then limit, then project into freshly constructed records
SelectRows(rows, p) ==
    LET limited == ApplyLimit(FilterRows(rows, p.preds), p.hasLimit,
                              IF p.hasLimit THEN LimitValue[p.limitTok] ELSE 0)
    IN  [i \in 1..Len(limited) |-> ProjectRow(limited[i], p.star, p.cols)]

\* variant: SELECT * without WHERE and LIMIT hands out the stored array itself
EvalQuery_aliasesStoredRows(p, t, bad, refd, tables, h) ==
    IF bad # {}
    THEN EngineResult(Throw("UnknownColumn", <<"Unknown column: ", refd[FirstOf(bad)]>>),
                      tables, h)
    ELSE IF p.hasLimit /\ p.limitTok \notin DOMAIN LimitValue
    THEN EngineResult(Throw("InvalidLimit", <<"Invalid LIMIT: ", p.limitTok>>), tables, h)
    ELSE IF p.star /\ p.preds = <<>> /\ ~p.hasLimit
    THEN EngineResult(Ok(t.ref), tables, h)
    ELSE EngineResult(Ok(Alloc(h)), tables, Store(h, Alloc(h), SelectRows(h[t.ref], p)))

EvalQuery(p, t, bad, refd, tables, h) ==
    IF bad # {}
    THEN EngineResult(Throw("UnknownColumn", <<"Unknown column: ", refd[FirstOf(bad)]>>),
                      tables, h)
    ELSE IF p.hasLimit /\ p.limitTok \notin DOMAIN LimitValue
    THEN EngineResult(Throw("InvalidLimit", <<"Invalid LIMIT: ", p.limitTok>>), tables, h)
    ELSE EngineResult(Ok(Alloc(h)), tables, Store(h, Alloc(h), SelectRows(h[t.ref], p)))

EvalOnTable(p, t, refd, tables, h) ==
    EvalQuery(p, t, BadColumns(refd, t.columns), refd, tables, h)

EvalParsed(p, tables, h) ==
    IF ~p.ok THEN EngineResult(Throw("ParseError", <<"Syntax error in query">>), tables, h)
    ELSE IF ~MapHas(tables, p.table) THEN EngineResult(UnknownTable(p.table), tables, h)
    ELSE EvalOnTable(p, MapGet(tables, p.table), ReferencedColumns(p), tables, h)

\* variant: a statement that starts with DROP TABLE is carried out
Engine_runQuery_executesDrop(q, tables, h) ==
    IF Len(q) >= 3 /\ q[1] = "DROP" /\ q[2] = "TABLE"
    THEN EngineResult(Throw("ParseError", <<"Syntax error in query">>),
                      MapDelete(tables, q[3]), h)
    ELSE EvalParsed(ParseQuery(q), tables, h)

Engine_runQuery(q, tables, h) == EvalParsed(ParseQuery(q), tables, h)

(***************************************************************************)
(* DuckDBManager: guards on isInitialized, delegates to the engine and     *)
(* re-throws every engine failure as a generic Error with a prefix         *)
(***************************************************************************)
NotInitialized == Throw("Error", <<"DuckDB not initialized">>)

\* variant: the catch block forgets the cause's message
Rethrow_dropsMessage(prefix, out) == Throw("Error", <<prefix>>)

Rethrow(prefix, out) == Throw("Error", <<prefix>> \o out.error.message)

\* try { ...; return <result> } catch (error) { throw new Error(prefix + message) }
Catch(prefix, r) ==
    IF r.out.status = "ok" THEN r
    ELSE EngineResult(Rethrow(prefix, r.out), r.tables, r.heap)

Returning(v, r) ==
    IF r.out.status = "ok" THEN EngineResult(Ok(v), r.tables, r.heap) ELSE r

\* variant: the catch block logs the failure and still returns the name
DuckDBManager_loadCSV_swallowsError(file, tableName, init, tables, h) ==
    IF ~init THEN EngineResult(NotInitialized, tables, h)
    ELSE EngineResult(Ok(tableName), Engine_loadCSV(file, tableName, tables, h).tables,
                      Engine_loadCSV(file, tableName, tables, h).heap)

\* variant: a name that is already registered is refused
DuckDBManager_loadCSV_rejectsExisting(file, tableName, init, tables, h) ==
    IF ~init THEN EngineResult(NotInitialized, tables, h)
    ELSE IF MapHas(tables, tableName)
    THEN EngineResult(Throw("Error", <<"Failed to load CSV: ", "Table already exists: ",
                                       tableName>>), tables, h)
    ELSE Catch("Failed to load CSV: ",
               Returning(tableName, Engine_loadCSV(file, tableName, tables, h)))

DuckDBManager_loadCSV(file, tableName, init, tables, h) ==
    IF ~init THEN EngineResult(NotInitialized, tables, h)
    ELSE Catch("Failed to load CSV: ",
               Returning(tableName, Engine_loadCSV(file, tableName, tables, h)))

DuckDBManager_runQuery(sql, init, tables, h) ==
    IF ~init THEN EngineResult(NotInitialized, tables, h)
    ELSE Catch("SQL Error: ", Engine_runQuery(sql, tables, h))

DuckDBManager_listTables(init, tables, h) ==
    IF ~init THEN EngineResult(NotInitialized, tables, h)
    ELSE Catch("Failed to list tables: ", Engine_listTables(tables, h))

DuckDBManager_getRowCount(tableName, init, tables, h) ==
    IF ~init THEN EngineResult(NotInitialized, tables, h)
    ELSE Catch("Failed to get row count: ", Engine_getRowCount(tableName, tables, h))

\* Object.keys(firstRow).map(column => ({column_name, column_type: 'VARCHAR', null: 'YES'}))
ColumnInfo(row) ==
    [j \in 1..Len(row) |-> [column_name |-> row[j].col, column_type |-> "VARCHAR",
                            null |-> "YES"]]

TableInfo(tableName, tables, h) ==
    IF ~MapHas(tables, tableName) THEN <<>>
    ELSE IF h[MapGet(tables, tableName).ref] = <<>> THEN <<>>
    ELSE ColumnInfo(h[MapGet(tables, tableName).ref][1])

\* variant: the check of isInitialized is missing
DuckDBManager_getTableInfo_unguarded(tableName, init, tables, h) ==
    EngineResult(Ok(TableInfo(tableName, tables, h)), tables, h)

DuckDBManager_getTableInfo(tableName, init, tables, h) ==
    IF ~init THEN EngineResult(NotInitialized, tables, h)
    ELSE EngineResult(Ok(TableInfo(tableName, tables, h)), tables, h)

\* variant: the engine call is left out, only the log line remains
DuckDBManager_dropTable_skipsEngine(tableName, init, tables, h) ==
    IF ~init THEN EngineResult(NotInitialized, tables, h)
    ELSE EngineResult(Ok(<<>>), tables, h)

\* variant: dropping a name that is not registered is reported as a failure
DuckDBManager_dropTable_throwsIfAbsent(tableName, init, tables, h) ==
    IF ~init THEN EngineResult(NotInitialized, tables, h)
    ELSE IF ~MapHas(tables, tableName)
    THEN EngineResult(Throw("Error", <<"Failed to drop table: ", "Unknown table: ",
                                       tableName>>), tables, h)
    ELSE Catch("Failed to drop table: ",
               Returning(<<>>, Engine_dropTable(tableName, tables, h)))

DuckDBManager_dropTable(tableName, init, tables, h) ==
    IF ~init THEN EngineResult(NotInitialized, tables, h)
    ELSE Catch("Failed to drop table: ",
               Returning(<<>>, Engine_dropTable(tableName, tables, h)))

(***************************************************************************)
(* Reachability of arrays                                                  *)
(***************************************************************************)
PendingRefs(pend) ==
    LET okCalls == SelectSeq(pend, LAMBDA c : c.out.status = "ok")
    IN  [i \in 1..Len(okCalls) |-> okCalls[i].out.value]

Roots(tables, cur, pend) ==
    [i \in 1..Len(tables) |-> tables[i].ref]
    \o (IF cur = NoRef THEN <<>> ELSE <<cur>>)
    \o PendingRefs(pend)

\* the next values of everything that holds a reference; s: the roots
CommitRoots(s, tables, h, cur, pend) ==
    /\ csvTables' = [i \in 1..Len(tables) |->
                        [tables[i] EXCEPT !.ref = Rank(s, tables[i].ref)]]
    /\ heap' = Collect(h, s)
    /\ currentResults' = Renumber(s, cur)
    /\ pending' = [i \in 1..Len(pend) |->
                      IF pend[i].out.status = "ok"
                      THEN [pend[i] EXCEPT !.out.value = Rank(s, pend[i].out.value)]
                      ELSE pend[i]]

CommitRefs(tables, h, cur, pend) ==
    CommitRoots(Roots(tables, cur, pend), tables, h, cur, pend)

\* what the caller of a DuckDBManager method observed: the call, its outcome
\* and the table names that were registered when it was made
Call(op, arg, out) ==
    [op |-> op, arg |-> arg, status |-> out.status, value |-> out.value,
     error |-> out.error, before |-> MapKeys(csvTables)]

(***************************************************************************)
(* Queries issued                                                          *)
(***************************************************************************)
SelectStar(t) == <<"SELECT", "*", "FROM", t>>

WhereClauses ==
    {<<>>, <<"where", "k", "=", "'x'">>}
    \cup {<<"WHERE", "v", "=", l>> : l \in {"'1'", "'x'", "'X'"}}

LimitClauses == {<<>>} \cup {<<"LIMIT", n>> : n \in {"0", "1", "2"}}

OtherQueries ==
    { <<"select", "v", "from", "t1">>,
      <<"SELECT", "k", ",", "v", "FROM", "t1", "WHERE", "v", ">", "1">>,
      <<"SELECT", "*", "FROM", "t1", "WHERE", "v", "=", "'x'", "AND", "k", "=", "'x'">>,
      <<"SELECT", "*", "FROM", "T1">>,
      <<"SELECT", "z", "FROM", "t1">>,
      <<"SELECT", "*", "FROM", "t1", "LIMIT", "-1">>,
      <<"SELECT", "*", "FROM", "t1", "WHERE", "1=1">>,
      <<"SELECT", "*", "FROM", "t1", "WHERE", "v", "=", "'x'", ";",
        "DROP", "TABLE", "t1", ";", "--'">>,
      <<"DROP", "TABLE", "t1">>,
      <<"INVALID", "SQL", "QUERY">> }

\* queries used where only the registry's bookkeeping is exercised
LifecycleQueries ==
    {SelectStar(t) : t \in TableNames}
    \cup { SelectStar("t1") \o <<"WHERE", "v", "=", "'x'">>,
           SelectStar("t2") \o <<"LIMIT", "1">>,
           <<"DROP", "TABLE", "t1">>,
           <<"INVALID", "SQL", "QUERY">> }

Queries ==
    {SelectStar(t) \o w \o l : t \in TableNames, w \in WhereClauses, l \in LimitClauses}
    \cup OtherQueries

(***************************************************************************)
(* Initial state: the page has loaded, nothing is constructed beyond the   *)
(* objects' constructors                                                   *)
(***************************************************************************)
Init ==
    /\ duckdbReady = FALSE
    /\ db = "null"
    /\ conn = "null"
    /\ isInitialized = FALSE
    /\ csvTables = <<>>
    /\ heap = << >>
    /\ lastCall = [op |-> "none", arg |-> <<>>, status |-> "ok", value |-> <<>>,
                   error |-> NoError, before |-> <<>>]
    /\ appInitialized = FALSE
    /\ currentQuery = <<>>
    /\ queryRunning = FALSE
    /\ pending = <<>>
    /\ lastNotice = <<>>
    /\ currentResults = NoRef
    /\ currentPage = 1
    /\ pageSize = 100
    /\ sortColumn = "null"
    /\ sortDirection = "asc"
    /\ testData = NoCall
    /\ UiInit
    /\ container = NoResults

(***************************************************************************)
(* DuckDBManager called directly (as the tests do)                         *)
(***************************************************************************)
\* new DuckDBManager(): the manager under test is a fresh one, window.csvTables is
\* the page's
Construct ==
    /\ db' = "null"
    /\ conn' = "null"
    /\ isInitialized' = FALSE
    /\ lastCall' = Call("new", <<>>, Ok(<<>>))
    /\ UNCHANGED <<otherVars, domVars, duckdbReady, engVars, toolVars, tableVars>>

\* the inline engine script has run: window.duckdb and window.duckdbReady set
PageReady ==
    /\ ~duckdbReady
    /\ duckdbReady' = TRUE
    /\ UNCHANGED <<otherVars, domVars, db, conn, isInitialized, engVars, lastCall,
                   toolVars, tableVars>>

Initialize ==
    /\ IF duckdbReady
       THEN /\ db' = "duckdb"
            /\ conn' = "duckdb"
            /\ isInitialized' = TRUE
            /\ lastCall' = Call("initialize", <<>>, Ok(TRUE))
       ELSE /\ UNCHANGED <<db, conn, isInitialized>>
            /\ lastCall' = Call("initialize", <<>>,
                   Throw("Error", <<"DuckDB initialization failed: ",
                         "CSV Tools not ready. Please wait for initialization to complete.">>))
    /\ UNCHANGED <<otherVars, domVars, duckdbReady, engVars, toolVars, tableVars>>

\* the method has returned r: the engine's state is committed and the caller
\* has observed out
Returned(op, arg, r, out) ==
    /\ CommitRefs(r.tables, r.heap, currentResults, pending)
    /\ lastCall' = Call(op, arg, out)
    /\ UNCHANGED <<otherVars, domVars, mgrVars, appVars, resultVars>>

LoadCSVReturned(file, tableName, r) ==
    Returned("loadCSV", [file |-> file, tableName |-> tableName], r, r.out)

LoadCSV(file, tableName) ==
    LoadCSVReturned(file, tableName,
        DuckDBManager_loadCSV(file, tableName, isInitialized, csvTables, heap))

\* the caller reads the returned array and keeps no reference to it
RunQueryReturned(sql, r) ==
    Returned("runQuery", sql, r,
             IF r.out.status = "ok" THEN Ok(r.heap[r.out.value]) ELSE r.out)

RunQuery(sql) ==
    RunQueryReturned(sql, DuckDBManager_runQuery(sql, isInitialized, csvTables, heap))

ListTablesReturned(r) == Returned("listTables", <<>>, r, r.out)

ListTables == ListTablesReturned(DuckDBManager_listTables(isInitialized, csvTables, heap))

GetRowCountReturned(tableName, r) == Returned("getRowCount", tableName, r, r.out)

GetRowCount(tableName) ==
    GetRowCountReturned(tableName,
        DuckDBManager_getRowCount(tableName, isInitialized, csvTables, heap))

DropTableReturned(tableName, r) == Returned("dropTable", tableName, r, r.out)

DropTable(tableName) ==
    DropTableReturned(tableName,
        DuckDBManager_dropTable(tableName, isInitialized, csvTables, heap))

GetTableInfoReturned(tableName, r) == Returned("getTableInfo", tableName, r, r.out)

GetTableInfo(tableName) ==
    GetTableInfoReturned(tableName,
        DuckDBManager_getTableInfo(tableName, isInitialized, csvTables, heap))

LoadCSVStep == \E file \in LifecycleFiles, n \in TableNames : LoadCSV(file, n)
RunQueryStep == \E sql \in LifecycleQueries : RunQuery(sql)
GetRowCountStep == \E n \in TableNames : GetRowCount(n)
DropTableStep == \E n \in TableNames : DropTable(n)
GetTableInfoStep == \E n \in TableNames : GetTableInfo(n)

Next ==
    \/ Construct
    \/ PageReady
    \/ Initialize
    \/ GetTableInfoStep
    \/ LoadCSVStep
    \/ RunQueryStep
    \/ ListTables
    \/ GetRowCountStep
    \/ DropTableStep

Spec == Init /\ [][Next]_vars

(***************************************************************************)
(* Query evaluation on its own: an initialized manager whose registry      *)
(* holds t1 with any content (and possibly t2), queried with every query   *)
(***************************************************************************)
SecondFiles == {f \in GoodFiles : f.data \in {<<>>, <<<<"x", "x">>, <<"1", "x">>>>}}

Loaded(r) ==
    /\ csvTables = r.tables
    /\ heap = r.heap

InitQuery ==
    /\ duckdbReady = TRUE
    /\ db = "duckdb"
    /\ conn = "duckdb"
    /\ isInitialized = TRUE
    /\ \E f1 \in GoodFiles :
          \/ Loaded(Engine_loadCSV(f1, "t1", <<>>, <<>>))
          \/ \E f2 \in SecondFiles :
                Loaded(Engine_loadCSV(f1, "t1",
                           Engine_loadCSV(f2, "t2", <<>>, <<>>).tables,
                           Engine_loadCSV(f2, "t2", <<>>, <<>>).heap))
    /\ lastCall = [op |-> "none", arg |-> <<>>, status |-> "ok", value |-> <<>>,
                   error |-> NoError, before |-> <<>>]
    /\ appInitialized = FALSE
    /\ currentQuery = <<>>
    /\ queryRunning = FALSE
    /\ pending = <<>>
    /\ lastNotice = <<>>
    /\ currentResults = NoRef
    /\ currentPage = 1
    /\ pageSize = 100
    /\ sortColumn = "null"
    /\ sortDirection = "asc"
    /\ testData = NoCall
    /\ UiInit
    /\ container = NoResults

QueryStep == \E sql \in Queries : RunQuery(sql)

NextQuery == QueryStep

SpecQuery == InitQuery /\ [][NextQuery]_vars

(***************************************************************************)
(* ResultsTable                                                            *)
(***************************************************************************)
View ==
    [currentResults |-> currentResults, currentPage |-> currentPage,
     sortColumn |-> sortColumn, sortDirection |-> sortDirection]

ResultsTable_displayResults(results) ==
    [currentResults |-> results, currentPage |-> 1,
     sortColumn |-> "null", sortDirection |-> "asc"]

ResultsTable_clear ==
    [currentResults |-> NoRef, currentPage |-> 1,
     sortColumn |-> "null", sortDirection |-> "asc"]

\* variant: endIndex is one short whenever a page is full
ResultsTable_renderTable_lastRowCutOff(rows, page, size) ==
    SubSeq(rows, (page - 1) * size + 1, Min((page - 1) * size + size - 1, Len(rows)))

\* renderTable: the rows of the current page, currentResults.slice(startIndex, endIndex)
ResultsTable_renderTable(rows, page, size) ==
    SubSeq(rows, (page - 1) * size + 1, Min((page - 1) * size + size, Len(rows)))

\* renderPagination: the controls exist when there are more rows than fit a page
ResultsTable_renderPagination(rows, size) == Len(rows) > size

\* render: a notice without results; the current page and the pagination otherwise
ResultsTable_render(results, rows, page, size) ==
    IF results = NoRef \/ rows = <<>> THEN NoResults
    ELSE [rows |-> ResultsTable_renderTable(rows, page, size),
          pagination |-> ResultsTable_renderPagination(rows, size)]

RenderView(view, h, size) ==
    IF view.currentResults = NoRef THEN NoResults
    ELSE ResultsTable_render(view.currentResults, h[view.currentResults],
                             view.currentPage, size)

\* Math.ceil(n / size)
CeilDiv(n, size) == (n + size - 1) \div size

\* variant: the page after the last one is accepted
ResultsTable_goToPage_onePastLast(view, rows, page, size, shown) ==
    IF page >= 1 /\ page <= CeilDiv(Len(rows), size) + 1
    THEN [view |-> [view EXCEPT !.currentPage = page],
          container |-> ResultsTable_render(view.currentResults, rows, page, size)]
    ELSE [view |-> view, container |-> shown]

ResultsTable_goToPage(view, rows, page, size, shown) ==
    IF page >= 1 /\ page <= CeilDiv(Len(rows), size)
    THEN [view |-> [view EXCEPT !.currentPage = page],
          container |-> ResultsTable_render(view.currentResults, rows, page, size)]
    ELSE [view |-> view, container |-> shown]

\* a[column], with null and undefined replaced by ''
SortValue(row, column) == IF HasKey(row, column) THEN RowGet(row, column) ELSE ""

\* parseFloat(v) of the values that parse
ParseFloat == ("10" :> 10) @@ NumberOf

\* isNaN(parseFloat(v)) for the values that occur
IsNaN(v) == v \notin DOMAIN ParseFloat

\* localeCompare order of the values that occur
LocaleRank ==
    ("" :> 0) @@ ("01" :> 1) @@ ("1" :> 2) @@ ("10" :> 3) @@ ("2" :> 4) @@ ("x" :> 5) @@ ("X" :> 6)

\* variant: every pair is compared as strings
SortCompare_byStringOnly(a, b, direction) ==
    IF direction = "asc" THEN LocaleRank[a] - LocaleRank[b] ELSE LocaleRank[b] - LocaleRank[a]

\* the comparator passed to Array.prototype.sort
SortCompare(a, b, direction) ==
    IF ~IsNaN(a) /\ ~IsNaN(b)
    THEN IF direction = "asc" THEN ParseFloat[a] - ParseFloat[b] ELSE ParseFloat[b] - ParseFloat[a]
    ELSE IF direction = "asc" THEN LocaleRank[a] - LocaleRank[b]
         ELSE LocaleRank[b] - LocaleRank[a]

\* x placed behind the elements of sorted that do not come after it
InsertRow(sorted, x, column, direction) ==
    LET k == Cardinality({i \in 1..Len(sorted) :
                 SortCompare(SortValue(sorted[i], column), SortValue(x, column), direction) <= 0})
    IN  SubSeq(sorted, 1, k) \o <<x>> \o SubSeq(sorted, k + 1, Len(sorted))

\* Array.prototype.sort: stable
RECURSIVE SortRows(_, _, _)
SortRows(rows, column, direction) ==
    IF rows = <<>> THEN <<>>
    ELSE InsertRow(SortRows(SubSeq(rows, 1, Len(rows) - 1), column, direction),
                   rows[Len(rows)], column, direction)

NextDirection(view, column) ==
    IF view.sortColumn = column
    THEN (IF view.sortDirection = "asc" THEN "desc" ELSE "asc")
    ELSE "asc"

\* the view and the contents of the array currentResults refers to, after the call
ResultsTable_sortByColumn(view, rows, column) ==
    IF view.currentResults = NoRef \/ rows = <<>>
    THEN [view |-> view, rows |-> rows]
    ELSE [view |-> [view EXCEPT !.sortColumn = column,
                                !.sortDirection = NextDirection(view, column),
                                !.currentPage = 1],
          rows |-> SortRows(rows, column, NextDirection(view, column))]

(***************************************************************************)
(* CSVTools.runQuery: from the call to the await, and from the settled     *)
(* promise to the end                                                      *)
(***************************************************************************)
CSVTools_runQuery_then(view, results) ==
    [view |-> ResultsTable_displayResults(results), running |-> FALSE, notice |-> lastNotice]

\* variant: the catch block does not call setQueryRunning(false)
CSVTools_runQuery_catch_staysRunning(view, error) ==
    [view |-> ResultsTable_clear, running |-> TRUE,
     notice |-> <<"Query failed: ">> \o error.message]

\* variant: the catch block reports the failure and leaves the results view alone
CSVTools_runQuery_catch_keepsResults(view, error) ==
    [view |-> view, running |-> FALSE, notice |-> <<"Query failed: ">> \o error.message]

CSVTools_runQuery_catch(view, error) ==
    [view |-> ResultsTable_clear, running |-> FALSE,
     notice |-> <<"Query failed: ">> \o error.message]

(***************************************************************************)
(* The application: an initialized manager, CSVTools still initializing    *)
(***************************************************************************)
AppFiles ==
    {f \in GoodFiles : f.data \in {<<<<"x", "x">>, <<"1", "x">>>>,
                                   <<<<"1", "x">>, <<"01", "x">>>>}}
    \cup {BadFile}

AppQueries ==
    {<<>>, SelectStar("t1"), SelectStar("t2"), <<"select", "v", "from", "t1">>}

InitApp ==
    /\ duckdbReady = TRUE
    /\ db = "duckdb"
    /\ conn = "duckdb"
    /\ isInitialized = TRUE
    /\ csvTables = <<>>
    /\ heap = << >>
    /\ lastCall = [op |-> "none", arg |-> <<>>, status |-> "ok", value |-> <<>>,
                   error |-> NoError, before |-> <<>>]
    /\ appInitialized = FALSE
    /\ currentQuery = <<>>
    /\ queryRunning = FALSE
    /\ pending = <<>>
    /\ lastNotice = <<>>
    /\ currentResults = NoRef
    /\ currentPage = 1
    /\ pageSize = 100
    /\ sortColumn = "null"
    /\ sortDirection = "asc"
    /\ testData = NoCall
    /\ UiInit
    /\ container = NoResults

\* CSVTools.initialize has passed its awaits
CSVTools_initialized ==
    /\ isInitialized
    /\ ~appInitialized
    /\ appInitialized' = TRUE
    /\ UNCHANGED <<otherVars, domVars, mgrVars, engVars, lastCall, currentQuery,
                   queryRunning, pending,
                   lastNotice, tableVars>>

ShowError(message) ==
    /\ lastNotice' = message
    /\ UNCHANGED <<otherVars, domVars, mgrVars, engVars, lastCall, appInitialized,
                   currentQuery,
                   queryRunning, pending, tableVars>>

\* up to the await: the query is with the engine, its outcome not yet delivered
CSVTools_runQuery_awaits(sql, r) ==
    /\ currentQuery' = sql
    /\ queryRunning' = TRUE
    /\ CommitRefs(r.tables, r.heap, currentResults,
                  Append(pending, [sql |-> sql, out |-> r.out]))
    /\ UNCHANGED <<otherVars, domVars, mgrVars, lastCall, appInitialized, lastNotice,
                   resultVars>>

\* runQuery with fewer than cap calls waiting for the engine
CSVTools_runQuery_within(sql, cap) ==
    IF ~appInitialized THEN ShowError(<<"Application not fully initialized">>)
    ELSE IF sql = <<>> THEN ShowError(<<"Please enter a SQL query">>)
    ELSE /\ Len(pending) < cap
         /\ CSVTools_runQuery_awaits(sql,
                DuckDBManager_runQuery(sql, isInitialized, csvTables, heap))

CSVTools_runQuery(sql) == CSVTools_runQuery_within(sql, MaxPending)

Settled(s, rest) ==
    /\ CommitRefs(csvTables, heap, s.view.currentResults, rest)
    /\ currentPage' = s.view.currentPage
    /\ sortColumn' = s.view.sortColumn
    /\ sortDirection' = s.view.sortDirection
    /\ queryRunning' = s.running
    /\ lastNotice' = s.notice
    /\ container' = RenderView(s.view, heap, pageSize)
    /\ UNCHANGED <<otherVars, mgrVars, lastCall, appInitialized,
                   currentQuery, pageSize>>

\* the awaited promise settles: displayResults, or the catch block
CSVTools_runQuery_resumes ==
    /\ pending # <<>>
    /\ IF Head(pending).out.status = "ok"
       THEN Settled(CSVTools_runQuery_then(View, Head(pending).out.value), Tail(pending))
       ELSE Settled(CSVTools_runQuery_catch(View, Head(pending).out.error), Tail(pending))

Sorted(s) ==
    /\ heap' = [heap EXCEPT ![currentResults] = s.rows]
    /\ currentPage' = s.view.currentPage
    /\ sortColumn' = s.view.sortColumn
    /\ sortDirection' = s.view.sortDirection
    /\ container' = ResultsTable_render(currentResults, s.rows, s.view.currentPage, pageSize)
    /\ UNCHANGED <<otherVars, mgrVars, csvTables, toolVars,
                   currentResults, pageSize>>

\* a click on a column header of the rendered table
SortByColumn ==
    /\ currentResults # NoRef
    /\ heap[currentResults] # <<>>
    /\ \E column \in Range(RowKeys(heap[currentResults][1])) :
          Sorted(ResultsTable_sortByColumn(View, heap[currentResults], column))
    /\ UNCHANGED lastCall

AppLoadCSV == \E file \in AppFiles : LoadCSV(file, "t1")
AppRunQuery == \E sql \in AppQueries : CSVTools_runQuery(sql)

NextApp ==
    \/ CSVTools_initialized
    \/ AppLoadCSV
    \/ AppRunQuery
    \/ CSVTools_runQuery_resumes
    \/ SortByColumn

SpecApp == InitApp /\ [][NextApp]_vars

(***************************************************************************)
(* CSVExporter (listed in src/WASM_IMPLEMENTATION.md).  Text is a sequence *)
(* of characters; a value is null, undefined or a string.                  *)
(***************************************************************************)
DQ == "\""
LF == "\n"
CR == "\r"

Chars == {"a", ",", ";", DQ, LF, CR}
Delimiters == {",", ";"}

Null == [kind |-> "null", chars |-> <<>>]
Undefined == [kind |-> "undefined", chars |-> <<>>]
Str(chars) == [kind |-> "string", chars |-> chars]

ExportValues == {Null, Undefined} \cup {Str(t) : t \in BoundedSeq(Chars, MaxChars)}

\* String.prototype.includes for a single character
Includes(text, ch) == \E i \in 1..Len(text) : text[i] = ch

\* stringValue.replace(/"/g, '""')
RECURSIVE DoubleQuotes(_)
DoubleQuotes(text) ==
    IF text = <<>> THEN <<>>
    ELSE (IF Head(text) = DQ THEN <<DQ, DQ>> ELSE <<Head(text)>>) \o DoubleQuotes(Tail(text))

\* variant: the value is wrapped, its double quotes are left as they are
CSVExporter_formatCSVValue_quotesNotDoubled(value) ==
    IF value.kind \in {"null", "undefined"} THEN <<>>
    ELSE IF \/ Includes(value.chars, ",") \/ Includes(value.chars, DQ)
            \/ Includes(value.chars, LF) \/ Includes(value.chars, CR)
    THEN <<DQ>> \o value.chars \o <<DQ>>
    ELSE value.chars

CSVExporter_formatCSVValue(value) ==
    IF value.kind \in {"null", "undefined"} THEN <<>>
    ELSE IF \/ Includes(value.chars, ",") \/ Includes(value.chars, DQ)
            \/ Includes(value.chars, LF) \/ Includes(value.chars, CR)
    THEN <<DQ>> \o DoubleQuotes(value.chars) \o <<DQ>>
    ELSE value.chars

CSVExporter_formatCSVValueWithDelimiter(value, delimiter) ==
    IF value.kind \in {"null", "undefined"} THEN <<>>
    ELSE IF \/ Includes(value.chars, delimiter) \/ Includes(value.chars, DQ)
            \/ Includes(value.chars, LF) \/ Includes(value.chars, CR)
    THEN <<DQ>> \o DoubleQuotes(value.chars) \o <<DQ>>
    ELSE value.chars

\* Array.prototype.join
RECURSIVE Join(_, _)
Join(texts, sep) ==
    IF texts = <<>> THEN <<>>
    ELSE IF Len(texts) = 1 THEN texts[1]
    ELSE texts[1] \o <<sep>> \o Join(Tail(texts), sep)

CSVExporter_formatCSVRow(values) == Join(values, ",")

\* row[header]
Field(row, header) == IF HasKey(row, header) THEN RowGet(row, header) ELSE Undefined

\* variant: the values of a record are written in the record's own key order
DataLine_ownKeyOrder(row, headers) ==
    CSVExporter_formatCSVRow(
        [j \in 1..Len(row) |-> CSVExporter_formatCSVValue(row[j].val)]) \o <<LF>>

\* the body of data.forEach: one record's line
DataLine(row, headers) ==
    CSVExporter_formatCSVRow(
        [j \in 1..Len(headers) |-> CSVExporter_formatCSVValue(Field(row, headers[j]))])
    \o <<LF>>

RECURSIVE DataLines(_, _)
DataLines(rows, headers) ==
    IF rows = <<>> THEN <<>>
    ELSE DataLine(Head(rows), headers) \o DataLines(Tail(rows), headers)

\* what a caller may pass as data: an array of records, null, or something else
ArrayOf(rows) == [kind |-> "array", rows |-> rows]
NullData == [kind |-> "null", rows |-> <<>>]

\* a key is written as one piece of text
KeyText(headers) == [j \in 1..Len(headers) |-> <<headers[j]>>]

CSVExporter_convertToCSV(data) ==
    IF data.kind = "null" \/ data.rows = <<>> THEN <<>>
    ELSE CSVExporter_formatCSVRow(KeyText(RowKeys(data.rows[1]))) \o <<LF>>
         \o DataLines(data.rows, RowKeys(data.rows[1]))

NotArray == [kind |-> "object", rows |-> <<>>]

\* result.valid, result.errors, result.stats.rows and result.stats.columns
CSVExporter_validateExportData(data) ==
    IF data.kind = "null"
    THEN [valid |-> FALSE, errors |-> <<"No data provided">>, rows |-> 0, columns |-> 0]
    ELSE IF data.kind # "array"
    THEN [valid |-> FALSE, errors |-> <<"Data must be an array">>, rows |-> 0, columns |-> 0]
    ELSE IF data.rows = <<>>
    THEN [valid |-> FALSE, errors |-> <<"Data array is empty">>, rows |-> 0, columns |-> 0]
    ELSE [valid |-> TRUE, errors |-> <<>>, rows |-> Len(data.rows),
          columns |-> Len(RowKeys(data.rows[1]))]

\* the file the browser is made to download
CSVExporter_downloadCSV(csvContent, filename) ==
    [filename |-> filename, content |-> <<"BOM">> \o csvContent]

\* the outcome's value lists the files downloaded
CSVExporter_exportToCSV(data, filename) ==
    IF data.kind = "null" \/ (data.kind = "array" /\ data.rows = <<>>)
    THEN Throw("Error", <<"Export failed: ", "No data to export">>)
    ELSE IF data.kind # "array"
    THEN Throw("Error", <<"Export failed: ", "TypeError">>)
    ELSE Ok(<<CSVExporter_downloadCSV(CSVExporter_convertToCSV(data), filename)>>)

(***************************************************************************)
(* CSVTools.exportResults.  results: what getCurrentResults() returned.    *)
(* The result names the notice shown, the exporter methods called and the  *)
(* files downloaded.                                                       *)
(***************************************************************************)
Exported(results, validation, filename, e) ==
    IF e.status = "ok"
    THEN [notice |-> <<"Exported ", ToString(validation.rows), " rows to ", filename>>,
          calls |-> <<"validateExportData", "exportToCSV">>,
          exported |-> results.rows, downloads |-> e.value]
    ELSE [notice |-> <<"Export failed: ">> \o e.error.message,
          calls |-> <<"validateExportData", "exportToCSV">>,
          exported |-> results.rows, downloads |-> <<>>]

Validated(results, validation, filename) ==
    IF ~validation.valid
    THEN [notice |-> <<"Export validation failed: ">> \o validation.errors,
          calls |-> <<"validateExportData">>, exported |-> <<>>, downloads |-> <<>>]
    ELSE Exported(results, validation, filename,
                  CSVExporter_exportToCSV(results, filename))

\* variant: only missing results are refused, an empty array goes on to validation
CSVTools_exportResults_checksNullOnly(results, filename) ==
    IF results.kind = "null"
    THEN [notice |-> <<"No results to export">>, calls |-> <<>>, exported |-> <<>>,
          downloads |-> <<>>]
    ELSE Validated(results, CSVExporter_validateExportData(results), filename)

CSVTools_exportResults(results, filename) ==
    IF results.kind = "null" \/ results.rows = <<>>
    THEN [notice |-> <<"No results to export">>, calls |-> <<>>, exported |-> <<>>,
          downloads |-> <<>>]
    ELSE Validated(results, CSVExporter_validateExportData(results), filename)

\* String(value) of the cell values the engine stores
CellChars == ("1" :> <<"1">>) @@ ("01" :> <<"0", "1">>) @@ ("x" :> <<"x">>)

ExportRow(row) == [j \in 1..Len(row) |-> [col |-> row[j].col, val |-> Str(CellChars[row[j].val])]]

\* variant: the rows of the page on display
ResultsTable_getCurrentResults_displayedRows(results, h, page, size) ==
    IF results = NoRef THEN NullData
    ELSE ArrayOf([i \in 1..Len(ResultsTable_renderTable(h[results], page, size)) |->
                     ExportRow(ResultsTable_renderTable(h[results], page, size)[i])])

\* getCurrentResults(): return this.currentResults, as the exporter sees it
ResultsTable_getCurrentResults(results, h, page, size) ==
    IF results = NoRef THEN NullData
    ELSE ArrayOf([i \in 1..Len(h[results]) |-> ExportRow(h[results][i])])

CurrentResultsData == ResultsTable_getCurrentResults(currentResults, heap, currentPage, pageSize)

(***************************************************************************)
(* Records handed to the exporter                                          *)
(***************************************************************************)
CellValues == {Null, Str(<<"a">>), Str(<<",", DQ, LF>>)}

KeyOrders == {<<"id", "name">>, <<"name", "id">>, <<"id">>}

ExportRecords ==
    UNION {{MakeRow(keys, values) : values \in [1..Len(keys) -> CellValues]} :
              keys \in KeyOrders}

ExportData == {NullData} \cup {ArrayOf(rows) : rows \in BoundedSeq(ExportRecords, MaxRecords)}

(***************************************************************************)
(* The exporter called directly (as the tests do)                          *)
(***************************************************************************)
ExportCalls ==
    {[op |-> "formatCSVValue", arg |-> value] : value \in ExportValues}
    \cup {[op |-> "formatCSVValueWithDelimiter",
           arg |-> [value |-> value, delimiter |-> delimiter]] :
              value \in ExportValues, delimiter \in Delimiters}
    \cup {[op |-> "convertToCSV", arg |-> data] : data \in ExportData}
    \cup {[op |-> "validateExportData", arg |-> data] : data \in ExportData \cup {NotArray}}
    \cup {[op |-> "exportToCSV", arg |-> data] : data \in ExportData \cup {NotArray}}

\* results a test hands to ResultsTable.displayResults before it exports
TestPageSizes == {1, 2}

DisplayedRows == {[i \in 1..Len(f.data) |-> MakeRow(f.columns, f.data[i])] : f \in GoodFiles}

\* the table after pageSize = size, displayResults and goToPage(page)
Displaying(ref, h, page, size) ==
    /\ currentResults = ref
    /\ heap = h
    /\ currentPage = page
    /\ pageSize = size
    /\ container = RenderView([ResultsTable_displayResults(ref) EXCEPT !.currentPage = page],
                              h, size)

InitExport ==
    /\ UiInit
    /\ duckdbReady = FALSE
    /\ db = "null"
    /\ conn = "null"
    /\ isInitialized = FALSE
    /\ csvTables = <<>>
    /\ lastCall = [op |-> "none", arg |-> <<>>, status |-> "ok", value |-> <<>>,
                   error |-> NoError, before |-> <<>>]
    /\ appInitialized = FALSE
    /\ currentQuery = <<>>
    /\ queryRunning = FALSE
    /\ pending = <<>>
    /\ lastNotice = <<>>
    /\ sortColumn = "null"
    /\ sortDirection = "asc"
    /\ \/ /\ testData \in ExportCalls
          /\ Displaying(NoRef, << >>, 1, 100)
       \/ /\ testData = [op |-> "exportResults", arg |-> <<>>]
          /\ \/ Displaying(NoRef, << >>, 1, 100)
             \/ \E rows \in DisplayedRows, size \in TestPageSizes \cup {100} :
                    \E page \in {1} \cup 1..CeilDiv(Len(rows), size) :
                        Displaying(1, <<rows>>, page, size)

\* the call is made and has returned out
Answered(out) ==
    /\ lastCall' = Call(testData.op, testData.arg, out)
    /\ testData' = NoCall
    /\ UNCHANGED <<mgrVars, engVars, toolVars, tableVars, domVars, uiVars>>

FormatCSVValue ==
    /\ testData.op = "formatCSVValue"
    /\ Answered(Ok(CSVExporter_formatCSVValue(testData.arg)))

FormatCSVValueWithDelimiter ==
    /\ testData.op = "formatCSVValueWithDelimiter"
    /\ Answered(Ok(CSVExporter_formatCSVValueWithDelimiter(testData.arg.value,
                                                            testData.arg.delimiter)))

ConvertToCSV ==
    /\ testData.op = "convertToCSV"
    /\ Answered(Ok(CSVExporter_convertToCSV(testData.arg)))

ValidateExportData ==
    /\ testData.op = "validateExportData"
    /\ Answered(Ok(CSVExporter_validateExportData(testData.arg)))

DefaultFilename == "query_results.csv"
TimestampedFilename == "csv_tools_results_<timestamp>.csv"

ExportToCSV ==
    /\ testData.op = "exportToCSV"
    /\ Answered(CSVExporter_exportToCSV(testData.arg, DefaultFilename))

ExportResultsReturned(r) ==
    /\ lastCall' = Call("exportResults", <<>>, Ok(r))
    /\ lastNotice' = r.notice
    /\ testData' = NoCall
    /\ UNCHANGED <<mgrVars, engVars, appInitialized, currentQuery, queryRunning, pending,
                   tableVars, domVars, uiVars>>

ExportResults ==
    /\ testData.op = "exportResults"
    /\ ExportResultsReturned(CSVTools_exportResults(CurrentResultsData, TimestampedFilename))

NextExport ==
    \/ FormatCSVValue
    \/ FormatCSVValueWithDelimiter
    \/ ConvertToCSV
    \/ ValidateExportData
    \/ ExportToCSV
    \/ ExportResults

SpecExport == InitExport /\ [][NextExport]_vars

(***************************************************************************)
(* ResultsTable called directly (as the tests do): a test sets pageSize,   *)
(* hands results to displayResults, navigates, sorts and clears            *)
(***************************************************************************)
\* result sets of the tests, cut to the bound
FullResults ==
    {[i \in 1..5 |-> MakeRow(Columns, <<v[i], "x">>)] :
        v \in {<<"x", "2", "10", "x", "1">>, <<"10", "x", "2", "01", "x">>}}

TestResults == {SubSeq(r, 1, n) : r \in FullResults, n \in 0..MaxResults}

SelectorSizes == {50, 100}

\* resultsTable.pageSize = size: an assignment, nothing is rendered
SetPageSize ==
    \E size \in TestPageSizes :
        /\ pageSize' = size
        /\ lastCall' = Call("pageSize=", size, Ok(<<>>))
        /\ UNCHANGED <<mgrVars, engVars, toolVars, currentResults, currentPage,
                       sortColumn, sortDirection, otherVars, domVars>>

TableSet(view, results, h, size) ==
    /\ CommitRefs(csvTables, h, results, pending)
    /\ currentPage' = view.currentPage
    /\ sortColumn' = view.sortColumn
    /\ sortDirection' = view.sortDirection
    /\ pageSize' = size
    /\ container' = RenderView(view, h, size)
    /\ UNCHANGED <<mgrVars, appVars, otherVars>>

DisplayResults ==
    \E rows \in TestResults :
        /\ lastCall' = Call("displayResults", <<>>, Ok(<<>>))
        /\ TableSet(ResultsTable_displayResults(Alloc(heap)), Alloc(heap),
                    Store(heap, Alloc(heap), rows), pageSize)

PageTurned(r) ==
    /\ currentPage' = r.view.currentPage
    /\ container' = r.container
    /\ UNCHANGED <<mgrVars, engVars, toolVars, currentResults, pageSize,
                   sortColumn, sortDirection, otherVars>>

GoToPage ==
    /\ currentResults # NoRef
    /\ \E page \in 0..(MaxResults + 1) :
          /\ lastCall' = Call("goToPage", page, Ok(<<>>))
          /\ PageTurned(ResultsTable_goToPage(View, heap[currentResults], page, pageSize,
                                              container))

\* the change handler of the page size selector, which exists with the pagination
SelectPageSize ==
    /\ container.pagination
    /\ \E size \in SelectorSizes :
          /\ lastCall' = Call("selectPageSize", size, Ok(<<>>))
          /\ TableSet([View EXCEPT !.currentPage = 1], currentResults, heap, size)

ClearTable ==
    /\ lastCall' = Call("clear", <<>>, Ok(<<>>))
    /\ TableSet(ResultsTable_clear, NoRef, heap, pageSize)

SortCalled ==
    /\ currentResults # NoRef
    /\ heap[currentResults] # <<>>
    /\ \E column \in Range(RowKeys(heap[currentResults][1])) :
          /\ lastCall' = Call("sortByColumn", column, Ok(<<>>))
          /\ Sorted(ResultsTable_sortByColumn(View, heap[currentResults], column))

NextTable ==
    \/ SetPageSize
    \/ DisplayResults
    \/ GoToPage
    \/ SelectPageSize
    \/ ClearTable
    \/ SortCalled

SpecTable == Init /\ [][NextTable]_vars

(***************************************************************************)
(* SQLEditor: the list of available tables, called directly (as the unit   *)
(* test does)                                                              *)
(***************************************************************************)
\* the UTF-16 code units of the table names that occur
CodeUnits ==
    ("T1" :> <<84, 49>>) @@ ("t1" :> <<116, 49>>) @@ ("t10" :> <<116, 49, 48>>)
    @@ ("t2" :> <<116, 50>>) @@ ("t3" :> <<116, 51>>) @@ ("t4" :> <<116, 52>>)
    @@ ("t5" :> <<116, 53>>) @@ ("table1" :> <<116, 97, 98, 108, 101, 49>>)

EditorNames == {"T1", "t1", "t10", "t2", "table1"}

\* the default comparison of Array.prototype.sort: a sorts before b by code units
RECURSIVE UnitsBefore(_, _)
UnitsBefore(a, b) ==
    IF b = <<>> THEN FALSE
    ELSE IF a = <<>> THEN TRUE
    ELSE IF a[1] # b[1] THEN a[1] < b[1]
    ELSE UnitsBefore(Tail(a), Tail(b))

InsertName(sorted, x) ==
    LET k == Cardinality({i \in 1..Len(sorted) : ~UnitsBefore(CodeUnits[x], CodeUnits[sorted[i]])})
    IN  SubSeq(sorted, 1, k) \o <<x>> \o SubSeq(sorted, k + 1, Len(sorted))

\* names.sort()
RECURSIVE SortNames(_)
SortNames(names) ==
    IF names = <<>> THEN <<>>
    ELSE InsertName(SortNames(SubSeq(names, 1, Len(names) - 1)), names[Len(names)])

\* names.indexOf(x), 1-based; 0 when absent
IndexOf(names, x) ==
    IF x \in Range(names) THEN FirstOf({i \in 1..Len(names) : names[i] = x}) ELSE 0

\* names.splice(index, 1)
Splice(names, index) == SubSeq(names, 1, index - 1) \o SubSeq(names, index + 1, Len(names))

\* variant: the name is appended and the list is not sorted again
SQLEditor_addTable_pushOnly(tables, tableName) ==
    IF tableName \notin Range(tables) THEN Append(tables, tableName) ELSE tables

SQLEditor_addTable(tables, tableName) ==
    IF tableName \notin Range(tables) THEN SortNames(Append(tables, tableName)) ELSE tables

SQLEditor_removeTable(tables, tableName) ==
    IF IndexOf(tables, tableName) > 0 THEN Splice(tables, IndexOf(tables, tableName))
    ELSE tables

EditorCalled(op, tableName, tables) ==
    /\ availableTables' = tables
    /\ lastCall' = Call(op, tableName, Ok(<<>>))
    /\ UNCHANGED <<mgrVars, engVars, toolVars, tableVars, harnessVars, domVars, fileVars,
                   fileError, runner>>

AddTable ==
    \E n \in EditorNames : EditorCalled("addTable", n, SQLEditor_addTable(availableTables, n))

RemoveTable ==
    \E n \in EditorNames :
        EditorCalled("removeTable", n, SQLEditor_removeTable(availableTables, n))

NextEditor ==
    \/ AddTable
    \/ RemoveTable

SpecEditor == Init /\ [][NextEditor]_vars

(***************************************************************************)
(* FileHandler with an initialized manager and the SQL editor listening    *)
(* for its events; CSVTools has not been initialized and listens for none  *)
(***************************************************************************)
SampleFile == [readable |-> TRUE, columns |-> Columns, data |-> <<<<"1", "x">>>>]

\* 10 * 1024 * 1024
SizeLimit == 10485760

\* file.name.toLowerCase() of the names that occur
ToLowerCase ==
    ("a.csv" :> "a.csv") @@ ("b.CSV" :> "b.csv") @@ ("c.txt" :> "c.txt") @@ ("d.csv" :> "d.csv")

EndsWithCsv(name) == name \in {"a.csv", "b.csv", "d.csv"}

\* File objects the user drops or selects
Uploads ==
    { [name |-> "a.csv", size |-> 1024, file |-> SampleFile],
      [name |-> "b.CSV", size |-> 1024, file |-> BadFile],
      [name |-> "d.csv", size |-> SizeLimit, file |-> SampleFile],
      [name |-> "c.txt", size |-> 1024, file |-> SampleFile],
      [name |-> "a.csv", size |-> SizeLimit + 1, file |-> SampleFile] }

\* variant: the size of the file is not looked at
FileHandler_validateFile_anySize(file, uploaded) ==
    IF ~EndsWithCsv(ToLowerCase[file.name])
    THEN [valid |-> FALSE,
          notice |-> <<"Invalid file type: ", file.name, ". Only CSV files are supported.">>]
    ELSE IF \E i \in 1..Len(uploaded) : uploaded[i].fileName = file.name
    THEN [valid |-> FALSE, notice |-> <<"File already uploaded: ", file.name>>]
    ELSE [valid |-> TRUE, notice |-> <<>>]

FileHandler_validateFile(file, uploaded) ==
    IF ~EndsWithCsv(ToLowerCase[file.name])
    THEN [valid |-> FALSE,
          notice |-> <<"Invalid file type: ", file.name, ". Only CSV files are supported.">>]
    ELSE IF file.size > SizeLimit
    THEN [valid |-> FALSE,
          notice |-> <<"File too large: ", file.name, ". Maximum size is 10MB.">>]
    ELSE IF \E i \in 1..Len(uploaded) : uploaded[i].fileName = file.name
    THEN [valid |-> FALSE, notice |-> <<"File already uploaded: ", file.name>>]
    ELSE [valid |-> TRUE, notice |-> <<>>]

\* `t${this.tableCounter++}`
FileHandler_generateTableName(counter) ==
    [tableName |-> "t" \o ToString(counter), tableCounter |-> counter + 1]

InitFiles ==
    /\ duckdbReady = TRUE
    /\ db = "duckdb"
    /\ conn = "duckdb"
    /\ isInitialized = TRUE
    /\ csvTables = <<>>
    /\ heap = << >>
    /\ lastCall = [op |-> "none", arg |-> <<>>, status |-> "ok", value |-> <<>>,
                   error |-> NoError, before |-> <<>>]
    /\ appInitialized = FALSE
    /\ currentQuery = <<>>
    /\ queryRunning = FALSE
    /\ pending = <<>>
    /\ lastNotice = <<>>
    /\ currentResults = NoRef
    /\ currentPage = 1
    /\ pageSize = 100
    /\ sortColumn = "null"
    /\ sortDirection = "asc"
    /\ testData = NoCall
    /\ UiInit
    /\ container = NoResults

\* the handler's step has left the engine as r says and shown message (none: <<>>)
FilesCommitted(r, message) ==
    /\ CommitRefs(r.tables, r.heap, currentResults, pending)
    /\ fileError' = message
    /\ UNCHANGED <<mgrVars, lastCall, appInitialized, currentQuery, queryRunning, lastNotice,
                   resultVars, harnessVars, domVars, runner>>

Untouched == EngineResult(Ok(<<>>), csvTables, heap)

\* handleFileAdded up to its await: validation and the alias
Validated_(file, v, g) ==
    IF ~v.valid
    THEN /\ FilesCommitted(Untouched, v.notice)
         /\ UNCHANGED <<edVars, fileVars>>
    ELSE /\ tableCounter' = g.tableCounter
         /\ loading' = Append(loading, [file |-> file, tableName |-> g.tableName,
                                        loaded |-> FALSE])
         /\ handedOut' = Append(handedOut, g.tableName)
         /\ FilesCommitted(Untouched, <<>>)
         /\ UNCHANGED <<edVars, uploadedFiles, clearing>>

\* a file may be added while fewer than cap files are loading or listed
Room(file, cap) ==
    FileHandler_validateFile(file, uploadedFiles).valid =>
        /\ tableCounter <= MaxAliases
        /\ Len(uploadedFiles) + Len(loading) < cap

HandleFileAdded_within(cap) ==
    \E file \in Uploads :
        /\ Room(file, cap)
        /\ Validated_(file, FileHandler_validateFile(file, uploadedFiles),
                      FileHandler_generateTableName(tableCounter))

HandleFileAdded == HandleFileAdded_within(MaxFiles)

FileInfo(p, rowCount) ==
    [file |-> p.file, tableName |-> p.tableName, fileName |-> p.file.name,
     fileSize |-> p.file.size, rowCount |-> rowCount]

\* variant: the fileLoaded event is sent for a failed file too
HandleFileAdded_fails_stillNotifies(i, p, r) ==
    /\ loading' = Splice(loading, i)
    /\ FilesCommitted(r, <<"Failed to process ", p.file.name, ": ">> \o r.out.error.message)
    /\ availableTables' = SQLEditor_addTable(availableTables, p.tableName)
    /\ UNCHANGED uploadedFiles

\* the catch block of handleFileAdded
HandleFileAdded_fails(i, p, r) ==
    /\ loading' = Splice(loading, i)
    /\ FilesCommitted(r, <<"Failed to process ", p.file.name, ": ">> \o r.out.error.message)
    /\ UNCHANGED <<uploadedFiles, availableTables>>

\* handleFileAdded when its await of duckdb.loadCSV settles
LoadSettled(i, p, r) ==
    /\ IF r.out.status = "ok"
       THEN /\ loading' = [loading EXCEPT ![i].loaded = TRUE]
            /\ FilesCommitted(r, <<>>)
            /\ UNCHANGED <<uploadedFiles, availableTables>>
       ELSE HandleFileAdded_fails(i, p, r)
    /\ UNCHANGED <<tableCounter, clearing, handedOut>>

HandleFileAdded_resumes ==
    \E i \in 1..Len(loading) :
        /\ ~loading[i].loaded
        /\ LoadSettled(i, loading[i],
               DuckDBManager_loadCSV(loading[i].file.file, loading[i].tableName,
                                     isInitialized, csvTables, heap))

\* handleFileAdded when its await of duckdb.getRowCount settles, to its end
RowCountSettled(i, p, r) ==
    /\ IF r.out.status = "ok"
       THEN /\ loading' = Splice(loading, i)
            /\ uploadedFiles' = Append(uploadedFiles, FileInfo(p, r.out.value))
            /\ availableTables' = SQLEditor_addTable(availableTables, p.tableName)
            /\ FilesCommitted(r, <<>>)
       ELSE HandleFileAdded_fails(i, p, r)
    /\ UNCHANGED <<tableCounter, clearing, handedOut>>

HandleFileAdded_stores ==
    \E i \in 1..Len(loading) :
        /\ loading[i].loaded
        /\ RowCountSettled(i, loading[i],
               DuckDBManager_getRowCount(loading[i].tableName, isInitialized, csvTables, heap))

\* variant: the alias of a removed file is given back
FileHandler_handleFileRemoved_reusesAlias(info, uploaded, counter, r) ==
    IF info \notin Range(uploaded) THEN [uploaded |-> uploaded, counter |-> counter, found |-> FALSE]
    ELSE IF r.out.status # "ok"
    THEN [uploaded |-> uploaded, counter |-> counter, found |-> FALSE]
    ELSE [uploaded |-> Splice(uploaded, IndexOf(uploaded, info)), counter |-> counter - 1,
          found |-> TRUE]

\* handleFileRemoved(file), r being the outcome of duckdb.dropTable
FileHandler_handleFileRemoved(info, uploaded, counter, r) ==
    IF info \notin Range(uploaded) THEN [uploaded |-> uploaded, counter |-> counter, found |-> FALSE]
    ELSE IF r.out.status # "ok"
    THEN [uploaded |-> uploaded, counter |-> counter, found |-> FALSE]
    ELSE [uploaded |-> Splice(uploaded, IndexOf(uploaded, info)), counter |-> counter,
          found |-> TRUE]

FileRemoved(info, r, out) ==
    /\ uploadedFiles' = out.uploaded
    /\ tableCounter' = out.counter
    /\ IF out.found
       THEN /\ availableTables' = SQLEditor_removeTable(availableTables, info.tableName)
            /\ FilesCommitted(r, <<>>)
       ELSE /\ UNCHANGED availableTables
            /\ FilesCommitted(Untouched,
                   IF r.out.status = "ok" \/ info \notin Range(uploadedFiles) THEN <<>>
                   ELSE <<"Error removing file: ">> \o r.out.error.message)
    /\ UNCHANGED <<loading, handedOut>>

HandleFileRemoved(info) ==
    FileRemoved(info,
        DuckDBManager_dropTable(info.tableName, isInitialized, csvTables, heap),
        FileHandler_handleFileRemoved(info, uploadedFiles, tableCounter,
            DuckDBManager_dropTable(info.tableName, isInitialized, csvTables, heap)))

\* the Remove button of a listed file: the first entry with that alias
RemoveFile ==
    \E i \in 1..Len(uploadedFiles) :
        /\ \A j \in 1..(i - 1) : uploadedFiles[j].tableName # uploadedFiles[i].tableName
        /\ HandleFileRemoved(uploadedFiles[i])
        /\ UNCHANGED clearing

\* clearAllFiles: Array.from(this.uploadedFiles.keys())
ClearAllFiles ==
    /\ ~clearing.active
    /\ clearing' = [active |-> TRUE, files |-> uploadedFiles]
    /\ FilesCommitted(Untouched, <<>>)
    /\ UNCHANGED <<edVars, tableCounter, uploadedFiles, loading, handedOut>>

\* one turn of its loop
ClearAllFiles_removes ==
    /\ clearing.active
    /\ clearing.files # <<>>
    /\ clearing' = [clearing EXCEPT !.files = Tail(clearing.files)]
    /\ HandleFileRemoved(Head(clearing.files))

\* after the loop: this.tableCounter = 1
ClearAllFiles_resets ==
    /\ clearing.active
    /\ clearing.files = <<>>
    /\ clearing' = Idle
    /\ tableCounter' = 1
    /\ handedOut' = <<>>
    /\ FilesCommitted(Untouched, <<>>)
    /\ UNCHANGED <<edVars, uploadedFiles, loading>>

NextFiles ==
    \/ HandleFileAdded
    \/ HandleFileAdded_resumes
    \/ HandleFileAdded_stores
    \/ RemoveFile
    \/ ClearAllFiles
    \/ ClearAllFiles_removes
    \/ ClearAllFiles_resets

SpecFiles == InitFiles /\ [][NextFiles]_vars

(***************************************************************************)
(* Files arriving in batches: handleFiles passes every .csv file of a drop *)
(* or selection to handleFileAdded without awaiting any of them.           *)
(***************************************************************************)
Batches == UNION {[1..n -> Uploads] : n \in 1..MaxBatch}

\* files.filter(file => file.name.toLowerCase().endsWith('.csv'))
CsvFiles(files) == SelectSeq(files, LAMBDA f : EndsWithCsv(ToLowerCase[f.name]))

\* handleFileAdded up to its await, on the handler's fields st
FileHandler_handleFileAdded(file, uploaded, st) ==
    IF ~FileHandler_validateFile(file, uploaded).valid
    THEN [st EXCEPT !.message = FileHandler_validateFile(file, uploaded).notice]
    ELSE [tableCounter |-> FileHandler_generateTableName(st.tableCounter).tableCounter,
          loading |-> Append(st.loading,
                        [file |-> file,
                         tableName |-> FileHandler_generateTableName(st.tableCounter).tableName,
                         loaded |-> FALSE]),
          handedOut |-> Append(st.handedOut,
                               FileHandler_generateTableName(st.tableCounter).tableName),
          message |-> st.message]

RECURSIVE ForEachFile(_, _, _)
\* csvFiles.forEach(file => this.handleFileAdded(file))
ForEachFile(files, uploaded, st) ==
    IF files = <<>> THEN st
    ELSE ForEachFile(Tail(files), uploaded,
                     FileHandler_handleFileAdded(Head(files), uploaded, st))

FilesHandled(st) ==
    /\ tableCounter' = st.tableCounter
    /\ loading' = st.loading
    /\ handedOut' = st.handedOut
    /\ FilesCommitted(Untouched, st.message)
    /\ UNCHANGED <<edVars, uploadedFiles, clearing>>

HandleFiles ==
    \E files \in Batches :
        /\ tableCounter + Len(files) <= MaxBatch + 1
        /\ Len(uploadedFiles) + Len(loading) + Len(files) <= MaxBatch
        /\ FilesHandled(ForEachFile(CsvFiles(files), uploadedFiles,
               [tableCounter |-> tableCounter, loading |-> loading,
                handedOut |-> handedOut, message |-> <<>>]))

NextBatch ==
    \/ HandleFiles
    \/ HandleFileAdded_resumes
    \/ HandleFileAdded_stores
    \/ RemoveFile
    \/ ClearAllFiles
    \/ ClearAllFiles_removes
    \/ ClearAllFiles_resets

SpecBatch == InitFiles /\ [][NextBatch]_vars

(***************************************************************************)
(* The ways a query is started: the Run button, Ctrl/Cmd+Enter anywhere on *)
(* the page, and the editor's executeQuery event.  setQueryRunning(true)   *)
(* disables the button and makes the editor read-only; the keydown         *)
(* listener of the document is not touched by it.                          *)
(***************************************************************************)
\* sqlEditor.getValue().trim()
EditorTexts == {<<>>, SelectStar("t1"), SelectStar("t2")}

\* click on #run-query; a disabled button sends no click
RunButtonClicked ==
    /\ ~queryRunning
    /\ \E text \in EditorTexts : CSVTools_runQuery_within(text, MaxInFlight)

\* keydown on the document with ctrlKey or metaKey and key 'Enter'
CtrlEnterPressed ==
    \E text \in EditorTexts : CSVTools_runQuery_within(text, MaxInFlight)

\* the editor's own Ctrl-Enter / Cmd-Enter binding, taken to be dead while read-only
ExecuteQueryEvent ==
    /\ ~queryRunning
    /\ \E text \in EditorTexts : CSVTools_runQuery_within(text, MaxInFlight)

FileLoadedAsT1 == LoadCSV(SampleFile, "t1")

NextRun ==
    \/ CSVTools_initialized
    \/ FileLoadedAsT1
    \/ RunButtonClicked
    \/ CtrlEnterPressed
    \/ ExecuteQueryEvent
    \/ CSVTools_runQuery_resumes

SpecRun == InitApp /\ [][NextRun]_vars

\* the engine settles every query it was given
SpecRunFair == SpecRun /\ WF_vars(CSVTools_runQuery_resumes)

(***************************************************************************)
(* CSVTools.onFileRemoved: the listener of the fileRemoved event.  The     *)
(* handler has dropped the table before it sends the event.                *)
(***************************************************************************)
\* the UTF-16 code units of the words of a query
WordUnits ==
    ("SELECT" :> <<83, 69, 76, 69, 67, 84>>) @@ ("*" :> <<42>>) @@ ("FROM" :> <<70, 82, 79, 77>>)
    @@ CodeUnits

\* the query string: its words with one space between them
RECURSIVE QueryText(_)
QueryText(words) ==
    IF words = <<>> THEN <<>>
    ELSE IF Len(words) = 1 THEN WordUnits[words[1]]
    ELSE WordUnits[words[1]] \o <<32>> \o QueryText(Tail(words))

\* String.prototype.includes
StringIncludes(text, part) ==
    \E i \in 0..(Len(text) - Len(part)) : SubSeq(text, i + 1, i + Len(part)) = part

CSVTools_onFileRemoved(view, query, detail) ==
    [cleared |-> StringIncludes(QueryText(query), CodeUnits[detail.tableName]),
     notice |-> <<"Removed ", detail.fileName, " (", detail.tableName, ")">>]

RemovedNames == {"t1", "t10"}

OnFileRemoved(r, s) ==
    /\ CommitRefs(r.tables, r.heap, IF s.cleared THEN NoRef ELSE currentResults, pending)
    /\ currentPage' = IF s.cleared THEN ResultsTable_clear.currentPage ELSE currentPage
    /\ sortColumn' = IF s.cleared THEN ResultsTable_clear.sortColumn ELSE sortColumn
    /\ sortDirection' = IF s.cleared THEN ResultsTable_clear.sortDirection ELSE sortDirection
    /\ container' = IF s.cleared THEN NoResults ELSE container
    /\ lastNotice' = s.notice
    /\ UNCHANGED <<otherVars, mgrVars, lastCall, appInitialized, currentQuery, queryRunning,
                   pageSize>>

\* handleFileRemoved: dropTable, then the event
FileRemovedEvent ==
    /\ appInitialized
    /\ \E t \in RemovedNames :
          /\ MapHas(csvTables, t)
          /\ OnFileRemoved(DuckDBManager_dropTable(t, isInitialized, csvTables, heap),
                 CSVTools_onFileRemoved(View, currentQuery,
                                        [tableName |-> t, fileName |-> "a.csv"]))

TableLoaded == \E file \in AppFiles, t \in RemovedNames : LoadCSV(file, t)

TableQueried == \E t \in RemovedNames : CSVTools_runQuery(SelectStar(t))

NextRemoved ==
    \/ CSVTools_initialized
    \/ TableLoaded
    \/ TableQueried
    \/ CSVTools_runQuery_resumes
    \/ FileRemovedEvent

SpecRemoved == InitApp /\ [][NextRemoved]_vars

(***************************************************************************)
(* TestRunner (src/tests/test-framework.js).  A test is its name, its      *)
(* category and whether its function throws; a run waits for one test      *)
(* function at a time.                                                     *)
(***************************************************************************)
TestCases ==
    { [name |-> "A", category |-> "unit", throws |-> FALSE],
      [name |-> "B", category |-> "unit", throws |-> TRUE],
      [name |-> "C", category |-> "integration", throws |-> FALSE] }

\* test(name, testFunction, category)
TestRunner_test(r, t) ==
    [r EXCEPT !.tests = Append(@, [name |-> t.name, category |-> t.category,
                                   throws |-> t.throws, id |-> Len(r.tests)]),
              !.lastOp = "test"]

\* the array a run iterates: this.tests itself for runAllTests, else the filtered copy
TestsToRun(r, run) == IF run.all THEN r.tests ELSE run.list

\* for (const test of testsToRun): the next test function is called and awaited, or
\* the loop is over: isRunning = false, completeTestRun()
ForOfTests(r, k) ==
    IF r.runs[k].done < Len(TestsToRun(r, r.runs[k]))
    THEN r
    ELSE [r EXCEPT !.isRunning = FALSE, !.runs = Splice(@, k)]

TestRunner_runTests(r, all, list) ==
    IF r.isRunning THEN [r EXCEPT !.lastOp = "runTests"]
    ELSE ForOfTests([r EXCEPT !.isRunning = TRUE, !.results = <<>>, !.currentTest = 0,
                              !.totalTests = Len(list),
                              !.runs = Append(@, [all |-> all, list |-> list, done |-> 0]),
                              !.lastOp = "runTests"],
                    Len(r.runs) + 1)

\* the test of run k that is being awaited
Awaited(r, k) == TestsToRun(r, r.runs[k])[r.runs[k].done + 1]

\* runSingleTest after its await: one result, PASS or FAIL
TestRunner_runSingleTest(r, test) ==
    [r EXCEPT !.results = Append(@, [name |-> test.name, category |-> test.category,
                                     status |-> IF test.throws THEN "FAIL" ELSE "PASS"])]

\* runTests from the settled runSingleTest: currentTest++ and on with the loop
TestRunner_runTests_resumes(r, k) ==
    ForOfTests([TestRunner_runSingleTest(r, Awaited(r, k))
                   EXCEPT !.currentTest = @ + 1, !.runs[k].done = @ + 1,
                          !.lastOp = "runSingleTest"],
               k)

TestRunner_clearResults(r) == [r EXCEPT !.results = <<>>, !.lastOp = "clearResults"]

RunnerCalled(r) ==
    /\ runner' = r
    /\ UNCHANGED <<mgrVars, engVars, lastCall, toolVars, tableVars, harnessVars, domVars,
                   edVars, fileVars, fileError>>

RegisterTest ==
    /\ Len(runner.tests) < MaxTests
    /\ \E t \in TestCases : RunnerCalled(TestRunner_test(runner, t))

OfCategory(tests, category) == SelectSeq(tests, LAMBDA t : t.category = category)

RunAllTests == RunnerCalled(TestRunner_runTests(runner, TRUE, runner.tests))

RunUnitTests ==
    RunnerCalled(TestRunner_runTests(runner, FALSE, OfCategory(runner.tests, "unit")))

RunIntegrationTests ==
    RunnerCalled(TestRunner_runTests(runner, FALSE,
                                        OfCategory(runner.tests, "integration")))

TestSettles ==
    \E k \in 1..Len(runner.runs) : RunnerCalled(TestRunner_runTests_resumes(runner, k))

ClearResults == RunnerCalled(TestRunner_clearResults(runner))

NextRunner ==
    \/ RegisterTest
    \/ RunAllTests
    \/ RunUnitTests
    \/ RunIntegrationTests
    \/ TestSettles
    \/ ClearResults

SpecRunner == InitApp /\ [][NextRunner]_vars

(***************************************************************************)
(* Observations used by the properties                                     *)
(***************************************************************************)
ListedNames == DuckDBManager_listTables(isInitialized, csvTables, heap).out

RowCountOf(n) == DuckDBManager_getRowCount(n, isInitialized, csvTables, heap).out

Occurrences(s, x) == Cardinality({i \in 1..Len(s) : s[i] = x})

NamesUnique(m) == \A i, j \in 1..Len(m) : m[i].name = m[j].name => i = j

\* the failure DuckDBManager reports when the engine failed with UnknownTable
WrappedUnknownTable(prefix, name) ==
    [kind |-> "Error", message |-> <<prefix>> \o UnknownTable(name).error.message]

\* the last call was a syntactically valid query whose FROM table is n
QueriedTable(n) ==
    /\ lastCall.op = "runQuery"
    /\ ParseQuery(lastCall.arg).ok
    /\ ParseQuery(lastCall.arg).table = n

(***************************************************************************)
(* C1: after a successful loadCSV(file, name) -- the code's createTable -- *)
(* the call has returned name unchanged, listTables() includes name and    *)
(* getRowCount(name) equals the number of data rows of the file.           *)
(***************************************************************************)
C1_LoadedTableListedAndCounted ==
    (lastCall.op = "loadCSV" /\ lastCall.status = "ok") =>
        LET n == lastCall.arg.tableName
        IN  /\ lastCall.value = n
            /\ ListedNames.status = "ok"
            /\ n \in Range(ListedNames.value)
            /\ RowCountOf(n).status = "ok"
            /\ RowCountOf(n).value = Len(lastCall.arg.file.data)

C1_Witness ==
    /\ lastCall.op = "loadCSV"
    /\ lastCall.status = "ok"
    /\ Len(lastCall.arg.file.data) = 2
    /\ lastCall.arg.tableName \notin Range(lastCall.before)
    /\ Len(csvTables) = 2

(***************************************************************************)
(* C3: table names in the registry are unique at all times; on an          *)
(* initialized manager (an uninitialized one refuses every call, C16)      *)
(* loadCSV of a                                                            *)
(* readable file under a name that is already registered raises no error   *)
(* and replaces the table: the name is listed exactly once, no entry is    *)
(* added and getRowCount(name) is the row count of the latest file.        *)
(***************************************************************************)
C3_Replaced ==
    (/\ lastCall.op = "loadCSV"
     /\ isInitialized
     /\ lastCall.arg.file.readable
     /\ lastCall.arg.tableName \in Range(lastCall.before)) =>
        LET n == lastCall.arg.tableName
        IN  /\ lastCall.status = "ok"
            /\ Occurrences(ListedNames.value, n) = 1
            /\ Len(ListedNames.value) = Len(lastCall.before)
            /\ RowCountOf(n).value = Len(lastCall.arg.file.data)

C3_UniqueNamesAndReplace == NamesUnique(csvTables) /\ C3_Replaced

C3_Witness ==
    /\ lastCall.op = "loadCSV"
    /\ lastCall.status = "ok"
    /\ lastCall.before = <<"t1", "t2">>
    /\ lastCall.arg.tableName = "t1"
    /\ Len(lastCall.arg.file.data) = 1
    /\ RowCountOf("t2").value = 2

(***************************************************************************)
(* C4: on an initialized manager (an uninitialized one refuses every call, *)
(* C16) dropTable(name) on a registered table succeeds and unlists it; a   *)
(* name only becomes registered through a loadCSV of that name; and every  *)
(* query against a name that is not registered fails with the engine's     *)
(* UnknownTable failure (as DuckDBManager reports it).  Together: after    *)
(* the drop, queries against name fail until it is created again.          *)
(***************************************************************************)
C4_DropUnlists ==
    (/\ lastCall.op = "dropTable"
     /\ isInitialized
     /\ lastCall.arg \in Range(lastCall.before)) =>
        /\ lastCall.status = "ok"
        /\ lastCall.arg \notin Range(ListedNames.value)

C4_QueryOfUnregisteredFails ==
    \A n \in TableNames :
        (QueriedTable(n) /\ isInitialized /\ ~MapHas(csvTables, n)) =>
            /\ lastCall.status = "error"
            /\ lastCall.error = WrappedUnknownTable("SQL Error: ", n)

C4_OnlyCreationRegisters ==
    \A n \in TableNames :
        (~MapHas(csvTables, n) /\ MapHas(csvTables', n)) =>
            /\ lastCall'.op = "loadCSV"
            /\ lastCall'.arg.tableName = n
            /\ lastCall'.status = "ok"

C5_DropOfAbsentStep ==
    \A n \in TableNames :
        (/\ lastCall'.op = "dropTable" /\ lastCall'.arg = n
         /\ isInitialized /\ ~MapHas(csvTables, n)) =>
            /\ lastCall'.status = "ok"
            /\ csvTables' = csvTables
            /\ heap' = heap

C5_SecondDropStep ==
    \A n \in TableNames :
        (/\ lastCall'.op = "dropTable" /\ lastCall'.arg = n
         /\ lastCall.op = "dropTable" /\ lastCall.arg = n /\ lastCall.status = "ok") =>
            /\ lastCall'.status = "ok"
            /\ csvTables' = csvTables
            /\ heap' = heap

C5_DropAbsentIsNoOp == [][C5_DropOfAbsentStep /\ C5_SecondDropStep]_vars

\* t1 was dropped although it was not registered, t2 is untouched
C5_Witness ==
    /\ lastCall.op = "dropTable"
    /\ lastCall.arg = "t1"
    /\ lastCall.status = "ok"
    /\ lastCall.before = <<"t2">>
    /\ MapKeys(csvTables) = <<"t2">>

(***************************************************************************)
(* C6 as stated: runQuery naming a table that is not registered, and       *)
(* getRowCount of a name that is not registered, fail with an error of     *)
(* type UnknownTable whose message names the table.                        *)
(***************************************************************************)
C6_UnregisteredCall(n) ==
    /\ isInitialized
    /\ ~MapHas(csvTables, n)
    /\ \/ QueriedTable(n)
       \/ lastCall.op = "getRowCount" /\ lastCall.arg = n

StoredRows(n) == heap[MapGet(csvTables, n).ref]

TableState(m, h) ==
    [i \in 1..Len(m) |-> [name |-> m[i].name, columns |-> m[i].columns, rows |-> h[m[i].ref]]]

\* the comparison rule of WHERE col = 'v'
EqualUnderRule(value, lit) ==
    IF value \in DOMAIN NumberOf /\ lit \in DOMAIN NumberOf
    THEN NumberOf[value] = NumberOf[lit]
    ELSE value = lit

\* w: no WHERE clause, or the tokens WHERE <col> = <literal>
MatchingRows(rows, w) ==
    IF w = <<>> THEN rows
    ELSE SelectSeq(rows, LAMBDA r : EqualUnderRule(RowGet(r, w[2]), LiteralValue[w[4]]))

(***************************************************************************)
(* C2: runQuery never mutates table state: across any runQuery call, with  *)
(* a well-formed, malformed or table-dropping query text, succeeding or    *)
(* failing, the registered names, their order, every table's columns and   *)
(* every stored row and the rows' order stay the same.                     *)
(***************************************************************************)
C2_QueryStepKeepsTables ==
    lastCall'.op = "runQuery" => TableState(csvTables', heap') = TableState(csvTables, heap)

C2_RunQueryLeavesTablesAlone == [][C2_QueryStepKeepsTables]_vars

\* the query that tries to drop t1 has failed and t1 still has its two rows
C2_Witness ==
    /\ lastCall.op = "runQuery"
    /\ lastCall.arg = <<"SELECT", "*", "FROM", "t1", "WHERE", "v", "=", "'x'", ";",
                        "DROP", "TABLE", "t1", ";", "--'">>
    /\ lastCall.status = "error"
    /\ MapHas(csvTables, "t1")
    /\ Len(StoredRows("t1")) = 2
    /\ Len(csvTables) = 2

(***************************************************************************)
(* C9: SELECT * FROM t WHERE col = 'v' on a registered table returns       *)
(* exactly the stored rows of t whose col value equals v -- numerically    *)
(* when both sides parse as numbers, as case-sensitive strings otherwise   *)
(* -- each once and in stored order.                                       *)
(***************************************************************************)
C9_WhereEqualsSelectsMatchingRows ==
    \A t \in TableNames, c \in Range(Columns), l \in DOMAIN LiteralValue :
        (/\ lastCall.op = "runQuery"
         /\ lastCall.arg = <<"SELECT", "*", "FROM", t, "WHERE", c, "=", l>>
         /\ MapHas(csvTables, t)) =>
            /\ lastCall.status = "ok"
            /\ lastCall.value = MatchingRows(StoredRows(t), <<"WHERE", c, "=", l>>)

\* v = '1' has selected the row holding "01" and left out the row holding "x"
C9_Witness ==
    /\ lastCall.op = "runQuery"
    /\ lastCall.arg = <<"SELECT", "*", "FROM", "t1", "WHERE", "v", "=", "'1'">>
    /\ lastCall.status = "ok"
    /\ StoredRows("t1") = <<MakeRow(Columns, <<"x", "x">>), MakeRow(Columns, <<"01", "x">>)>>
    /\ lastCall.value = <<MakeRow(Columns, <<"01", "x">>)>>

(***************************************************************************)
(* C10: SELECT * FROM t [WHERE col = 'v'] LIMIT n succeeds and returns the *)
(* first n of the (filtered) rows in stored order when there are more than *)
(* n of them, all of them otherwise, and the empty sequence for n = 0.     *)
(***************************************************************************)
C10_LimitAfterWhere ==
    \A t \in TableNames, w \in WhereClauses, n \in DOMAIN LimitValue :
        (/\ lastCall.op = "runQuery"
         /\ lastCall.arg = SelectStar(t) \o w \o <<"LIMIT", n>>
         /\ MapHas(csvTables, t)) =>
            LET matching == MatchingRows(StoredRows(t), w)
            IN  /\ lastCall.status = "ok"
                /\ Len(lastCall.value) = Min(LimitValue[n], Len(matching))
                /\ \A i \in 1..Len(lastCall.value) : lastCall.value[i] = matching[i]
                /\ LimitValue[n] = 0 => lastCall.value = <<>>

\* LIMIT 1 has returned the second stored row, the first one that matches
C10_Witness ==
    /\ lastCall.op = "runQuery"
    /\ lastCall.arg = <<"SELECT", "*", "FROM", "t1", "WHERE", "v", "=", "'x'", "LIMIT", "1">>
    /\ lastCall.status = "ok"
    /\ StoredRows("t1") = <<MakeRow(Columns, <<"1", "x">>), MakeRow(Columns, <<"x", "x">>)>>
    /\ lastCall.value = <<MakeRow(Columns, <<"x", "x">>)>>

(***************************************************************************)
(* C7: a query either fully succeeds or fully fails: a failed runQuery     *)
(* delivers one error and no rows, and the step in which CSVTools.runQuery *)
(* handles the failure leaves the results view cleared: currentResults is  *)
(* null, whatever was displayed before.                                    *)
(***************************************************************************)
FailedQueryHandled ==
    /\ pending # <<>>
    /\ Head(pending).out.status = "error"
    /\ Len(pending') < Len(pending)

C7_FailureStep ==
    FailedQueryHandled =>
        /\ Head(pending).out.value = <<>>
        /\ Head(pending).out.error.kind # "none"
        /\ currentResults' = NoRef
        /\ ~queryRunning'

C7_FailedQueryClearsResults == [][C7_FailureStep]_vars

\* the query on the unregistered t2 has failed and the view is empty
C7_Witness ==
    /\ currentQuery = SelectStar("t2")
    /\ pending = <<>>
    /\ lastNotice = <<"Query failed: ", "SQL Error: ", "Unknown table: ", "t2">>
    /\ currentResults = NoRef
    /\ MapHas(csvTables, "t1")
    /\ StoredRows("t1") # <<>>

(***************************************************************************)
(* C8: runQuery returns freshly constructed records: when                  *)
(* ResultsTable.sortByColumn sorts in place the array it was handed by the *)
(* query, no table's stored rows or row order change, and SELECT * on any  *)
(* registered table returns afterwards the rows, in the order, it would    *)
(* have returned before.                                                   *)
(***************************************************************************)
QueryRows(t, tables, h) ==
    DuckDBManager_runQuery(SelectStar(t), TRUE, tables, h).heap[
        DuckDBManager_runQuery(SelectStar(t), TRUE, tables, h).out.value]

SortStep ==
    /\ sortColumn' # "null"
    /\ <<sortColumn', sortDirection'>> # <<sortColumn, sortDirection>>

C8_SortStepKeepsTables ==
    SortStep =>
        /\ TableState(csvTables', heap') = TableState(csvTables, heap)
        /\ \A t \in TableNames :
              MapHas(csvTables, t) => QueryRows(t, csvTables', heap') = QueryRows(t, csvTables, heap)

C8_SortNeverReachesStoredRows == [][C8_SortStepKeepsTables]_vars

\* the displayed rows of SELECT * FROM t1 are sorted by v, the stored rows are not
C8_Witness ==
    /\ currentQuery = SelectStar("t1")
    /\ pending = <<>>
    /\ currentResults # NoRef
    /\ sortColumn = "v"
    /\ sortDirection = "asc"
    /\ heap[currentResults] = <<MakeRow(Columns, <<"1", "x">>), MakeRow(Columns, <<"x", "x">>)>>
    /\ MapHas(csvTables, "t1")
    /\ StoredRows("t1") = <<MakeRow(Columns, <<"x", "x">>), MakeRow(Columns, <<"1", "x">>)>>

(***************************************************************************)
(* C11: SELECT * FROM t on a registered table succeeds and returns as many *)
(* records as t has stored rows, in stored order; the keys of every record *)
(* are the columns of t's schema, in schema order, and each value equals   *)
(* the value of that column in the corresponding stored row.               *)
(***************************************************************************)
C11_SelectStarReturnsEveryRow ==
    \A t \in TableNames :
        (/\ lastCall.op = "runQuery"
         /\ lastCall.arg = SelectStar(t)
         /\ MapHas(csvTables, t)) =>
            /\ lastCall.status = "ok"
            /\ Len(lastCall.value) = Len(StoredRows(t))
            /\ \A i \in 1..Len(lastCall.value) :
                  /\ RowKeys(lastCall.value[i]) = MapGet(csvTables, t).columns
                  /\ \A c \in Range(MapGet(csvTables, t).columns) :
                        RowGet(lastCall.value[i], c) = RowGet(StoredRows(t)[i], c)

\* SELECT * FROM t1 has returned both rows of a table whose rows differ
C11_Witness ==
    /\ lastCall.op = "runQuery"
    /\ lastCall.arg = SelectStar("t1")
    /\ lastCall.status = "ok"
    /\ StoredRows("t1") = <<MakeRow(Columns, <<"x", "x">>), MakeRow(Columns, <<"01", "x">>)>>
    /\ Len(lastCall.value) = 2
    /\ RowGet(lastCall.value[2], "v") = "01"

(***************************************************************************)
(* Reading a quoted field back                                             *)
(***************************************************************************)
\* the text between the enclosing quotes, each pair of quotes read as one;
\* a quote that stands alone is read as "?"
RECURSIVE Undoubled(_)
Undoubled(text) ==
    IF text = <<>> THEN <<>>
    ELSE IF Head(text) # DQ THEN <<Head(text)>> \o Undoubled(Tail(text))
    ELSE IF Len(text) >= 2 /\ text[2] = DQ THEN <<DQ>> \o Undoubled(SubSeq(text, 3, Len(text)))
    ELSE <<"?">> \o Undoubled(Tail(text))

EscapedAsCSV(value, delimiter, out) ==
    IF value.kind # "string" THEN out = <<>>
    ELSE IF \E i \in 1..Len(value.chars) : value.chars[i] \in {delimiter, DQ, LF, CR}
    THEN /\ Len(out) >= 2
         /\ out[1] = DQ
         /\ out[Len(out)] = DQ
         /\ Undoubled(SubSeq(out, 2, Len(out) - 1)) = value.chars
    ELSE out = value.chars

(***************************************************************************)
(* C12: formatCSVValue and formatCSVValueWithDelimiter turn null and       *)
(* undefined into the empty string, wrap a value in double quotes exactly  *)
(* when it contains the field delimiter, a double quote, a line feed or a  *)
(* carriage return, with every embedded double quote doubled (reading the  *)
(* pairs back gives the value), and leave every other value as it is.      *)
(***************************************************************************)
C12_ValuesEscaped ==
    /\ lastCall.op = "formatCSVValue" =>
          EscapedAsCSV(lastCall.arg, ",", lastCall.value)
    /\ lastCall.op = "formatCSVValueWithDelimiter" =>
          EscapedAsCSV(lastCall.arg.value, lastCall.arg.delimiter, lastCall.value)

\* the value a", has been written as "a"","
C12_Witness ==
    /\ lastCall.op = "formatCSVValue"
    /\ lastCall.arg = Str(<<"a", DQ, ",">>)
    /\ lastCall.value = <<DQ, "a", DQ, DQ, ",", DQ>>

(***************************************************************************)
(* Reading a CSV document back: records end at a line feed outside quotes, *)
(* fields at a comma outside quotes.  q: inside quotes; f: the field and   *)
(* r: the record being read; rs: the records read so far.                  *)
(***************************************************************************)
RECURSIVE ReadCSV(_, _, _, _, _)
ReadCSV(t, q, f, r, rs) ==
    IF t = <<>>
    THEN [records |-> rs, complete |-> ~q /\ f = <<>> /\ r = <<>>]
    ELSE IF q /\ Head(t) = DQ /\ Len(t) >= 2 /\ t[2] = DQ
    THEN ReadCSV(SubSeq(t, 3, Len(t)), TRUE, Append(f, DQ), r, rs)
    ELSE IF Head(t) = DQ THEN ReadCSV(Tail(t), ~q, f, r, rs)
    ELSE IF q THEN ReadCSV(Tail(t), TRUE, Append(f, Head(t)), r, rs)
    ELSE IF Head(t) = "," THEN ReadCSV(Tail(t), FALSE, <<>>, Append(r, f), rs)
    ELSE IF Head(t) = LF THEN ReadCSV(Tail(t), FALSE, <<>>, <<>>, Append(rs, Append(r, f)))
    ELSE ReadCSV(Tail(t), FALSE, Append(f, Head(t)), r, rs)

\* the text a cell stands for: null and undefined stand for no text
CellText(row, key) ==
    IF HasKey(row, key) /\ RowGet(row, key).kind = "string"
    THEN RowGet(row, key).chars
    ELSE <<>>

ExpectedRecords(rows) ==
    <<KeyText(RowKeys(rows[1]))>>
    \o [i \in 1..Len(rows) |->
           [j \in 1..Len(RowKeys(rows[1])) |-> CellText(rows[i], RowKeys(rows[1])[j])]]

ReadBack(doc, rows) ==
    /\ ReadCSV(doc, FALSE, <<>>, <<>>, <<>>).complete
    /\ ReadCSV(doc, FALSE, <<>>, <<>>, <<>>).records = ExpectedRecords(rows)

(***************************************************************************)
(* C13: convertToCSV of a non-empty list of N records is a document of     *)
(* N + 1 newline-terminated lines, the last one included: the first lists  *)
(* the keys of the first record in iteration order, and line i + 1 holds   *)
(* the fields of record i, one per header key, in the header's order.      *)
(***************************************************************************)
C13_HeaderThenOneLinePerRecord ==
    (/\ lastCall.op = "convertToCSV"
     /\ lastCall.arg.kind = "array"
     /\ lastCall.arg.rows # <<>>) =>
        ReadBack(lastCall.value, lastCall.arg.rows)

\* two records with their keys in different orders, one value needing quotes
C13_Witness ==
    /\ lastCall.op = "convertToCSV"
    /\ lastCall.arg.kind = "array"
    /\ lastCall.arg.rows =
          <<MakeRow(<<"id", "name">>, <<Str(<<"a">>), Str(<<",", DQ, LF>>)>>),
            MakeRow(<<"name", "id">>, <<Str(<<"a">>), Null>>)>>
    /\ lastCall.value =
          <<"id", ",", "name", LF,
            "a", ",", DQ, ",", DQ, DQ, LF, DQ, LF,
            ",", "a", LF>>

(***************************************************************************)
(* C14: exporting nothing is rejected and downloads nothing:               *)
(* validateExportData answers valid = false for null, for a non-array and  *)
(* for an empty array, and valid = true with the number of records and the *)
(* number of keys of the first record otherwise; exportToCSV throws for    *)
(* null and for an empty array; CSVTools.exportResults with no current     *)
(* results, or empty ones, shows "No results to export" and calls no       *)
(* method of the exporter.                                                 *)
(***************************************************************************)
NothingToExport(data) == data.kind # "array" \/ data.rows = <<>>

C14_NothingToExportIsRejected ==
    /\ lastCall.op = "validateExportData" =>
          IF NothingToExport(lastCall.arg)
          THEN ~lastCall.value.valid /\ lastCall.value.errors # <<>>
          ELSE /\ lastCall.value.valid
               /\ lastCall.value.errors = <<>>
               /\ lastCall.value.rows = Len(lastCall.arg.rows)
               /\ lastCall.value.columns = Len(lastCall.arg.rows[1])
    /\ lastCall.op = "exportToCSV" =>
          IF NothingToExport(lastCall.arg)
          THEN lastCall.status = "error" /\ lastCall.value = <<>>
          ELSE lastCall.status = "ok" /\ Len(lastCall.value) = 1
    /\ (lastCall.op = "exportResults" /\ NothingToExport(CurrentResultsData)) =>
          /\ lastNotice = <<"No results to export">>
          /\ lastCall.value.calls = <<>>
          /\ lastCall.value.downloads = <<>>

\* the results table holds an empty result, and the export was refused
C14_Witness ==
    /\ lastCall.op = "exportResults"
    /\ currentResults # NoRef
    /\ heap[currentResults] = <<>>
    /\ lastNotice = <<"No results to export">>
    /\ lastCall.value.downloads = <<>>

(***************************************************************************)
(* C17: with N current results and page size s, displayResults shows page  *)
(* 1, and goToPage(p) with 1 <= p <= ceil(N/s) shows page p: the rendered  *)
(* table holds exactly the rows with (0-based) indexes (p-1)*s up to       *)
(* min(p*s, N) - 1, in order -- s rows on every page but the last, and the *)
(* remaining N - (ceil(N/s) - 1)*s rows on the last.                       *)
(***************************************************************************)
RowsOfPage(rows, p, s) ==
    [i \in 1..(IF p * s <= Len(rows) THEN s ELSE Len(rows) - (p - 1) * s) |->
        rows[(p - 1) * s + i]]

LastPage(rows, s) == CeilDiv(Len(rows), s)

RowsOnPage(rows, p, s) ==
    IF p < LastPage(rows, s) THEN s ELSE Len(rows) - (LastPage(rows, s) - 1) * s

PageIsShown(p) ==
    /\ currentPage' = p
    /\ container'.rows = RowsOfPage(heap'[currentResults'], p, pageSize')
    /\ heap'[currentResults'] # <<>> =>
          Len(container'.rows) = RowsOnPage(heap'[currentResults'], p, pageSize')

C17_PageStep ==
    /\ lastCall'.op = "displayResults" => PageIsShown(1)
    /\ (/\ lastCall'.op = "goToPage"
        /\ lastCall'.arg >= 1
        /\ lastCall'.arg <= LastPage(heap[currentResults], pageSize)) =>
          PageIsShown(lastCall'.arg)

C17_PageHoldsItsRows == [][C17_PageStep]_vars

\* three results, two to a page: page 2 shows the third row alone
C17_Witness ==
    /\ lastCall.op = "goToPage"
    /\ lastCall.arg = 2
    /\ pageSize = 2
    /\ currentPage = 2
    /\ currentResults # NoRef
    /\ Len(heap[currentResults]) = 3
    /\ container.rows = <<heap[currentResults][3]>>
    /\ container.pagination

(***************************************************************************)
(* C18: sortByColumn(c) on a column that is not the current sort column    *)
(* orders the current results ascending by c -- numerically when both      *)
(* compared values parse as numbers, by string comparison otherwise;       *)
(* sortByColumn(c) again on the same column toggles the direction and      *)
(* yields descending order; a different column starts ascending again.     *)
(* The sorted results hold the rows they held before.                      *)
(***************************************************************************)
Parses(v) == v \in DOMAIN ParseFloat

NotAfter(a, b) ==
    IF Parses(a) /\ Parses(b) THEN ParseFloat[a] <= ParseFloat[b]
    ELSE LocaleRank[a] <= LocaleRank[b]

Ascending(rows, c) ==
    \A i, j \in 1..Len(rows) : i < j => NotAfter(RowGet(rows[i], c), RowGet(rows[j], c))

Descending(rows, c) ==
    \A i, j \in 1..Len(rows) : i < j => NotAfter(RowGet(rows[j], c), RowGet(rows[i], c))

SameRows(before, after) ==
    /\ Len(before) = Len(after)
    /\ \A i \in 1..Len(before) : Occurrences(before, before[i]) = Occurrences(after, before[i])

C18_SortStep ==
    lastCall'.op = "sortByColumn" =>
        /\ sortColumn' = lastCall'.arg
        /\ currentResults' = currentResults
        /\ SameRows(heap[currentResults], heap'[currentResults'])
        /\ sortColumn # lastCall'.arg =>
              /\ sortDirection' = "asc"
              /\ Ascending(heap'[currentResults'], lastCall'.arg)
        /\ (sortColumn = lastCall'.arg /\ sortDirection = "asc") =>
              /\ sortDirection' = "desc"
              /\ Descending(heap'[currentResults'], lastCall'.arg)
        /\ (sortColumn = lastCall'.arg /\ sortDirection = "desc") =>
              /\ sortDirection' = "asc"
              /\ Ascending(heap'[currentResults'], lastCall'.arg)

C18_SortOrdersByColumn == [][C18_SortStep]_vars

\* 10, x, 2 sorted twice by v: descending, x before 10 as strings, 10 before 2 as numbers
C18_Witness ==
    /\ lastCall.op = "sortByColumn"
    /\ lastCall.arg = "v"
    /\ sortColumn = "v"
    /\ sortDirection = "desc"
    /\ currentResults # NoRef
    /\ Len(heap[currentResults]) = 3
    /\ [i \in 1..3 |-> RowGet(heap[currentResults][i], "v")] = <<"x", "10", "2">>

(***************************************************************************)
(* C15: export uses the full dataset regardless of display limits:         *)
(* whatever the current page and the page size of the results table,       *)
(* exportResults hands the exporter every row of the current query result, *)
(* and the file downloaded holds a line for each of them.                  *)
(***************************************************************************)
EveryRow == [i \in 1..Len(heap[currentResults]) |-> ExportRow(heap[currentResults][i])]

C15_ExportHandsOverEveryRow ==
    (/\ lastCall.op = "exportResults"
     /\ currentResults # NoRef
     /\ heap[currentResults] # <<>>) =>
        /\ lastCall.value.calls = <<"validateExportData", "exportToCSV">>
        /\ lastCall.value.exported = EveryRow
        /\ Len(lastCall.value.downloads) = 1
        /\ lastCall.value.downloads[1].content =
              <<"BOM">> \o CSVExporter_convertToCSV(ArrayOf(EveryRow))

\* two results, one to a page, page 2 on display: both rows are exported
C15_Witness ==
    /\ lastCall.op = "exportResults"
    /\ currentResults # NoRef
    /\ Len(heap[currentResults]) = 2
    /\ pageSize = 1
    /\ currentPage = 2
    /\ container.rows = <<heap[currentResults][2]>>
    /\ Len(lastCall.value.exported) = 2

(***************************************************************************)
(* C16: a DuckDBManager is not initialized on construction (isInitialized  *)
(* false, db and conn null) and becomes initialized -- isInitialized true, *)
(* db and conn set -- only by an initialize() that succeeds; loadCSV,      *)
(* runQuery, getTableInfo, listTables, getRowCount and dropTable called    *)
(* while isInitialized is false fail with "DuckDB not initialized" and     *)
(* leave the engine's tables as they were.                                 *)
(***************************************************************************)
GuardedMethods ==
    {"loadCSV", "runQuery", "getTableInfo", "listTables", "getRowCount", "dropTable"}

C16_Step ==
    /\ lastCall'.op = "new" => (~isInitialized' /\ db' = "null" /\ conn' = "null")
    /\ (isInitialized' /\ ~isInitialized) =>
          /\ lastCall'.op = "initialize"
          /\ lastCall'.status = "ok"
          /\ db' # "null"
          /\ conn' # "null"
    /\ (lastCall'.op = "initialize" /\ lastCall'.status = "error") =>
          UNCHANGED <<db, conn, isInitialized>>
    /\ (lastCall'.op \in GuardedMethods /\ ~isInitialized) =>
          /\ lastCall'.status = "error"
          /\ lastCall'.error.message = <<"DuckDB not initialized">>
          /\ UNCHANGED <<db, conn, isInitialized, engVars>>

C16_OnlyInitializedReachesEngine ==
    /\ ~isInitialized /\ db = "null" /\ conn = "null"
    /\ [][C16_Step]_vars

\* a fresh manager, while the page holds a table: getTableInfo of it is refused
C16_Witness ==
    /\ ~isInitialized
    /\ db = "null"
    /\ lastCall.op = "getTableInfo"
    /\ lastCall.status = "error"
    /\ lastCall.error.message = <<"DuckDB not initialized">>
    /\ MapHas(csvTables, lastCall.arg)
    /\ heap[MapGet(csvTables, lastCall.arg).ref] # <<>>

(***************************************************************************)
(* C19: SQLEditor.availableTables never holds a name twice and is kept in  *)
(* sorted order (the order of Array.prototype.sort, by code units);        *)
(* addTable of a name already present leaves the list unchanged and of a   *)
(* new name adds just that name; removeTable removes the name and is a     *)
(* no-op for an absent name.  So the list is always the set of names added *)
(* and not since removed.                                                  *)
(***************************************************************************)
NoDuplicate(names) == \A i, j \in 1..Len(names) : names[i] = names[j] => i = j

InSortedOrder(names) ==
    \A i, j \in 1..Len(names) : i < j => UnitsBefore(CodeUnits[names[i]], CodeUnits[names[j]])

C19_EditorStep ==
    /\ lastCall'.op = "addTable" =>
          /\ Range(availableTables') = Range(availableTables) \cup {lastCall'.arg}
          /\ lastCall'.arg \in Range(availableTables) => availableTables' = availableTables
    /\ lastCall'.op = "removeTable" =>
          /\ Range(availableTables') = Range(availableTables) \ {lastCall'.arg}
          /\ lastCall'.arg \notin Range(availableTables) => availableTables' = availableTables

C19_TablesSortedWithoutDuplicates ==
    /\ [](NoDuplicate(availableTables) /\ InSortedOrder(availableTables))
    /\ [][C19_EditorStep]_vars

\* t10 was added last and stands between t1 and t2
C19_Witness ==
    /\ lastCall.op = "addTable"
    /\ lastCall.arg = "t10"
    /\ availableTables = <<"T1", "t1", "t10", "t2">>

(***************************************************************************)
(* C20: uploaded files are aliased t1, t2, t3, ... in order: the k-th file *)
(* that passes validation since the handler started (or since clearAllFiles *)
(* last reset the counter) is given the alias t<k>; removing a file and a  *)
(* load that fails hand no alias back, so no alias is given out twice.     *)
(***************************************************************************)
AliasOf(k) == "t" \o ToString(k)

C20_CountedFromOne == \A k \in 1..Len(handedOut) : handedOut[k] = AliasOf(k)

C20_FileStep ==
    /\ Len(loading') > Len(loading) =>
          /\ loading'[Len(loading')].tableName = AliasOf(Len(handedOut) + 1)
          /\ handedOut' = Append(handedOut, AliasOf(Len(handedOut) + 1))
    /\ (\/ Len(uploadedFiles') < Len(uploadedFiles)
        \/ (Len(loading') < Len(loading) /\ uploadedFiles' = uploadedFiles)) =>
          /\ handedOut' = handedOut
          /\ tableCounter' = tableCounter
    /\ (handedOut # <<>> /\ handedOut' = <<>>) => (clearing.active /\ ~clearing'.active)

C20_AliasesCountUpward ==
    /\ []C20_CountedFromOne
    /\ [][C20_FileStep]_vars

\* a.csv was t1 and has been removed, the load of t2 failed: a.csv is now t3
C20_Witness ==
    /\ handedOut = <<"t1", "t2", "t3">>
    /\ Len(uploadedFiles) = 1
    /\ uploadedFiles[1].tableName = "t3"
    /\ uploadedFiles[1].fileName = "a.csv"
    /\ MapKeys(csvTables) = <<"t3">>
    /\ availableTables = <<"t3">>

(***************************************************************************)
(* C21: a file is rejected before any table is created for it when its     *)
(* name does not end in .csv (in any letter case), when it is larger than  *)
(* 10 MB, or when a tracked file has the same name: the engine is not      *)
(* called, and uploadedFiles and tableCounter stay as they were.  Only a   *)
(* file that passes all three rules is given an alias and handed to the    *)
(* engine.                                                                 *)
(***************************************************************************)
CsvNames == {"a.csv", "b.CSV", "d.csv"}

BreaksARule(file) ==
    \/ file.name \notin CsvNames
    \/ file.size > SizeLimit
    \/ \E i \in 1..Len(uploadedFiles) : uploadedFiles[i].fileName = file.name

Rejections == {"Invalid file type: ", "File too large: ", "File already uploaded: "}

C21_FileStep ==
    /\ Len(loading') > Len(loading) => ~BreaksARule(loading'[Len(loading')].file)
    /\ (fileError' # <<>> /\ Head(fileError') \in Rejections) =>
          UNCHANGED <<engVars, uploadedFiles, tableCounter, loading, availableTables>>
    /\ tableCounter' > tableCounter => Len(loading') > Len(loading)
    /\ csvTables' # csvTables => loading' # loading \/ uploadedFiles' # uploadedFiles

C21_RejectedBeforeAnyTable == [][C21_FileStep]_vars

\* a.csv is listed as t1 and a second a.csv has just been turned away
C21_Witness ==
    /\ fileError = <<"File already uploaded: ", "a.csv">>
    /\ Len(uploadedFiles) = 1
    /\ uploadedFiles[1].fileName = "a.csv"
    /\ MapKeys(csvTables) = <<"t1">>
    /\ loading = <<>>
    /\ tableCounter = 2

(***************************************************************************)
(* C22: after any sequence of uploads, removals and clearAllFiles - also   *)
(* clearAllFiles while an upload is in flight - the table names of the     *)
(* entries of uploadedFiles are pairwise distinct and each is the name of  *)
(* a table registered in the engine.                                       *)
(***************************************************************************)
C22_AliasesDistinctAndRegistered ==
    /\ \A i, j \in 1..Len(uploadedFiles) :
          i # j => uploadedFiles[i].tableName # uploadedFiles[j].tableName
    /\ \A i \in 1..Len(uploadedFiles) : MapHas(csvTables, uploadedFiles[i].tableName)

(***************************************************************************)
(* C23: no two entries of uploadedFiles have the same fileName, also when  *)
(* files of the same name arrive in one batch or a second upload of the    *)
(* name starts while the first is still loading.                           *)
(***************************************************************************)
C23_FileNamesDistinct ==
    \A i, j \in 1..Len(uploadedFiles) :
        i # j => uploadedFiles[i].fileName # uploadedFiles[j].fileName

(***************************************************************************)
(* C27: when handleFileAdded fails after validation - in the engine's load *)
(* or in the row count that follows it - the file is not added to          *)
(* uploadedFiles, no fileLoaded event is sent (the editor's tables stay as *)
(* they were), and no table created for the file remains registered.       *)
(***************************************************************************)
ProcessingFailed(p) ==
    /\ fileError' # <<>>
    /\ Head(fileError') = "Failed to process "
    /\ fileError'[2] = p.file.name
    /\ \E i \in 1..Len(loading) : loading[i] = p /\ loading' = Splice(loading, i)

C27_FailureStep ==
    /\ (fileError' # <<>> /\ Head(fileError') = "Failed to process ") =>
          /\ \E i \in 1..Len(loading) : ProcessingFailed(loading[i])
          /\ uploadedFiles' = uploadedFiles
          /\ availableTables' = availableTables
    /\ \A i \in 1..Len(loading) :
          ProcessingFailed(loading[i]) =>
             IF loading[i].loaded
             THEN ~MapHas(csvTables', loading[i].tableName)
             ELSE UNCHANGED engVars
    /\ Len(uploadedFiles') > Len(uploadedFiles) =>
          /\ fileError' = <<>>
          /\ MapHas(csvTables', uploadedFiles'[Len(uploadedFiles')].tableName)

C24_OneQueryInFlight == Len(pending) <= 1

(***************************************************************************)
(* C25: every time runQuery puts the UI in the running state, the UI       *)
(* returns to the not-running state once the engine has answered, whether  *)
(* the query succeeded or failed.  A call that is turned away up front     *)
(* (application not initialized, empty query) does not enter the running   *)
(* state and does not reach the engine.                                    *)
(***************************************************************************)
TurnedAway == {<<"Application not fully initialized">>, <<"Please enter a SQL query">>}

C25_RunStep ==
    /\ Len(pending') > Len(pending) =>
          /\ appInitialized
          /\ pending'[Len(pending')].sql # <<>>
          /\ queryRunning'
    /\ (lastNotice' # lastNotice /\ lastNotice' \in TurnedAway) =>
          UNCHANGED <<queryRunning, pending, engVars, currentQuery, tableVars>>
    /\ (~queryRunning /\ queryRunning') => Len(pending') > Len(pending)
    /\ Len(pending') < Len(pending) => ~queryRunning'

PageCount(rows, size) == (Len(rows) + size - 1) \div size

HoldsRows(ref, h) == ref # NoRef /\ h[ref] # <<>>

PageInRange(ref, h, page, size) ==
    HoldsRows(ref, h) => (1 <= page /\ page <= PageCount(h[ref], size))

PagingOps == {"displayResults", "goToPage", "sortByColumn", "selectPageSize"}

C26_PagingStep ==
    /\ lastCall'.op \in {"displayResults", "sortByColumn", "selectPageSize"} =>
          /\ currentPage' = 1
          /\ PageInRange(currentResults', heap', currentPage', pageSize')
    /\ lastCall'.op = "goToPage" =>
          /\ UNCHANGED <<currentResults, pageSize>>
          /\ IF 1 <= lastCall'.arg /\ lastCall'.arg <= PageCount(heap[currentResults], pageSize)
             THEN currentPage' = lastCall'.arg
             ELSE UNCHANGED <<currentPage, container>>
    /\ (lastCall'.op \in PagingOps /\ PageInRange(currentResults, heap, currentPage, pageSize)) =>
          PageInRange(currentResults', heap', currentPage', pageSize')

C26_PageStaysInRange == [][C26_PagingStep]_vars

\* three rows in pages of two: goToPage(3) was asked for on page 2 and nothing moved
C26_Witness ==
    /\ lastCall.op = "goToPage"
    /\ lastCall.arg = 3
    /\ HoldsRows(currentResults, heap)
    /\ Len(heap[currentResults]) = 3
    /\ pageSize = 2
    /\ currentPage = 2
    /\ Len(container.rows) = 1

(***************************************************************************)
(* C28: with every fileLoaded and fileRemoved event handled, the editor's  *)
(* availableTables holds exactly the table names the file handler tracks   *)
(* (FileHandler.getTableNames).                                            *)
(***************************************************************************)
\* Array.from(this.uploadedFiles.values()).map(info => info.tableName)
FileHandler_getTableNames(uploaded) == [i \in 1..Len(uploaded) |-> uploaded[i].tableName]

C28_EditorKnowsTrackedTables ==
    Range(availableTables) = Range(FileHandler_getTableNames(uploadedFiles))

(***************************************************************************)
(* C29: when a file is removed, the displayed results are cleared if and   *)
(* only if they were produced by a query on the removed table; the results *)
(* of a query on another table - t10 when t1 is removed - are left as they *)
(* are.                                                                    *)
(***************************************************************************)
FromTable(query) == ParseQuery(query).table

JustRemoved(t) == MapHas(csvTables, t) /\ ~MapHas(csvTables', t)

C29_RemovalStep ==
    \A t \in RemovedNames :
        (JustRemoved(t) /\ currentResults # NoRef /\ pending = <<>>) =>
            IF FromTable(currentQuery) = t
            THEN currentResults' = NoRef /\ container' = NoResults
            ELSE /\ currentResults' # NoRef
                 /\ heap'[currentResults'] = heap[currentResults]
                 /\ UNCHANGED <<currentPage, sortColumn, sortDirection, container>>

C29_ClearedOnlyForRemovedTable == [][C29_RemovalStep]_vars

(***************************************************************************)
(* C30: test runs never overlap and each run is complete.  A call of       *)
(* runTests made while isRunning is true runs no test and does not reset   *)
(* results; a run that was started executes its tests one at a time in     *)
(* registration order, records exactly one PASS or FAIL result per test,   *)
(* also for a test that throws, and ends with results.length = totalTests  *)
(* and isRunning false.                                                    *)
(***************************************************************************)
ResultOf(test) ==
    [name |-> test.name, category |-> test.category,
     status |-> IF test.throws THEN "FAIL" ELSE "PASS"]

\* the tests the run was started with
StartedWith(r, run) == IF run.all THEN SubSeq(r.tests, 1, r.totalTests) ELSE run.list

C30_IgnoredWhileRunning ==
    (runner.isRunning /\ runner'.lastOp = "runTests") =>
        /\ runner'.results = runner.results
        /\ runner'.runs = runner.runs
        /\ runner'.isRunning
        /\ runner'.totalTests = runner.totalTests
        /\ runner'.currentTest = runner.currentTest

C30_OneAtATime == Len(runner.runs) <= 1 /\ (runner.isRunning <=> runner.runs # <<>>)

C30_RunEnds ==
    (runner.isRunning /\ ~runner'.isRunning) =>
        /\ Len(runner'.results) = runner'.totalTests
        /\ runner'.results =
              [i \in 1..Len(StartedWith(runner, runner.runs[1])) |->
                  ResultOf(StartedWith(runner, runner.runs[1])[i])]

C30_RunsCompleteWithoutOverlap ==
    /\ []C30_OneAtATime
    /\ [][C30_IgnoredWhileRunning /\ C30_RunEnds]_vars

====
